---- MODULE Spec2Model ----
(***************************************************************************)
(* FishNet on-device inference pipeline.                                   *)
(*                                                                         *)
(* The implementations of the pipeline are modelled side by side, selected *)
(* by the variable `variant`.  The three-model implementations are         *)
(*   "hook"    src/src/hooks/useFishNet.ts, first revision (lines 1-262)   *)
(*   "part000" src/unnamed/part_000 (hook with the 0.05 override)          *)
(*   "worker"  src/public/fish.worker.js                                   *)
(* The multi-head revisions ("part001", src/unnamed/part_001, and "rev2",  *)
(* src/src/hooks/useFishNet.ts lines 263-484) have their own actions.      *)
(*                                                                         *)
(* Numbers.  Every real number of the program (scores, confidences, box    *)
(* coordinates) is a fixed-point integer in millionths: 0.25 is 250000,    *)
(* 1.0 is 1000000, a confidence of 88.5 is 88500000.  The inputs are       *)
(* chosen so that every division the code performs is exact.              *)
(***************************************************************************)
EXTENDS Integers, Sequences, FiniteSets, TLC

VARIABLES
    variant,        \* which implementation runs
    loader,         \* the Promise.all of the model loads: pending/resolved/rejected
    isMounted,      \* hook: the effect's isMounted flag
    isModelLoading, \* hook: useState(true)
    modelError,     \* hook: useState(null)
    modelsRef,      \* hook: useRef({detector, species, disease})
    fishCount,      \* hook: useState(0)
    detectorModel,  \* worker: module-level handle
    speciesModel,   \* worker: module-level handle
    diseaseModel,   \* worker: module-level handle
    posted,         \* worker: messages posted so far (type, error, frame)
    returned,       \* hook: what each finished analyzeFish call returned (kind, frame)
    submitted,      \* per frame: the provider status when the frame was submitted
    pc,             \* position of the analyze call in flight
    frame,          \* the frame the call in flight works on (0: none yet)
    bestBox,        \* the call's bestBox local (None or <<yMin,xMin,yMax,xMax>>)
    detectedCount,  \* the call's detectedCount local
    aboveCount,     \* number of anchors of the call's grid above the threshold
    spData,         \* the call's species vector (None until read)
    dzData,         \* the call's disease vector (None until read)
    finalChoice,    \* the call's chosen prediction (None until arbitration)
    invoked,        \* model invocations of the call: [detector, species, disease]
    thrownAt,       \* the stage that threw in this call ("none" if none)
    result,         \* the AnalysisResult the call produced (None if none)
    prev,           \* the model outputs and the result of the call before this
                    \* one, kept where two calls are compared (None otherwise)
    live,           \* the tensors the call in flight allocated and has not disposed
    grid,           \* the detector output the call decoded, kept where the
                    \* decoding is examined (None otherwise)
    other           \* the locals of the calls suspended at an await while the
                    \* call in flight runs (and, where two calls are compared,
                    \* of the calls that returned before it)

vars == << variant, loader, isMounted, isModelLoading, modelError, modelsRef,
           fishCount, detectorModel, speciesModel, diseaseModel, posted,
           returned, submitted, pc, frame, bestBox, detectedCount, aboveCount,
           spData, dzData, finalChoice, invoked, thrownAt, result, prev, live,
           grid, other >>

(***************************************************************************)
(* Bounds of the model.                                                    *)
(***************************************************************************)
\* frames submitted in one behaviour
MaxFrames == 2
\* anchors of the detection grid where the cap of the count is exercised
CrowdAnchors == 52
\* anchors of the detection grid (2100 in the code)
NumAnchors == 2

(***************************************************************************)
(* Fixed point.                                                            *)
(***************************************************************************)
U == 1000 * 1000

\* null of a handle or of a message; None is the null of a structured value
Null == "null"
None == << >>

Max2(a, b) == IF a > b THEN a ELSE b
Min2(a, b) == IF a < b THEN a ELSE b

(***************************************************************************)
(* Labels and fixed results.                                               *)
(***************************************************************************)
SPECIES_LABELS ==
    << "catfish", "catla", "common_carp", "crab", "grass_carp",
       "mackerel", "mrigal", "pink_perch", "prawn", "red_mullet",
       "rohu", "sea_bass", "sea_bream", "silver_carp", "sprat",
       "tilapia", "trout", "wild_fish_background" >>

DISEASE_LABELS == << "black_gill_disease", "healthy", "white_spot_virus" >>

Box(b) == [yMin |-> b[1], xMin |-> b[2], yMax |-> b[3], xMax |-> b[4]]

\* FALLBACK_RESULT of the hook (identical in useFishNet.ts rev. 1 and part_000)
FALLBACK_RESULT ==
    [ species     |-> [name |-> "rohu", confidence |-> 88500000],
      freshness   |-> [score |-> 920000, label |-> "Fresh"],
      disease     |-> [name |-> "healthy", hasDisease |-> FALSE,
                       confidence |-> 94200000],
      boundingBox |-> Box(<<150000, 150000, 850000, 850000>>) ]

\* variant of DefaultBox: the box of FALLBACK_RESULT in its place
DefaultBoxFromFallback == <<150000, 150000, 850000, 850000>>

\* the box used when no anchor passes the threshold
DefaultBox == <<100000, 100000, 900000, 900000>>

(***************************************************************************)
(* Detector stage: decoding the output grid.                               *)
(* `data` is the flat array the code indexes as data[i * 11 + j]: one row  *)
(* of 11 numbers per anchor, (cx, cy, w, h) then 7 class scores.           *)
(***************************************************************************)
RowLen == 11
FirstClass == 4
DetectThreshold == 250000
NormCutoff == 1500000
GridSize == 320
MaxCount == 50

\* data[k] of the code (0-based)
At(data, k) == data[k + 1]

\* for (j = from; j < 11; j++) if (data[offset + j] > currentMax) currentMax = ...
RECURSIVE ClassMax(_, _, _, _)
ClassMax(data, offset, j, currentMax) ==
    IF j >= RowLen THEN currentMax
    ELSE ClassMax(data, offset, j + 1,
                  IF At(data, offset + j) > currentMax
                  THEN At(data, offset + j) ELSE currentMax)

CurrentMax(data, offset) == ClassMax(data, offset, FirstClass, 0)

\* hook: isNormalized ? 1.0 : 320.0
ScaleOf(cx, w) == IF cx < NormCutoff /\ w < NormCutoff THEN 1 ELSE GridSize

\* hook: the four corners of the winning anchor with the hook's clamps;
\* only the lower clamp on the min corners, only the upper on the max corners
DecodeBoxHook(cx, cy, w, h) ==
    LET scale == ScaleOf(cx, w) IN
    << Max2(0, (cy - (h \div 2)) \div scale),
       Max2(0, (cx - (w \div 2)) \div scale),
       Min2(U, (cy + (h \div 2)) \div scale),
       Min2(U, (cx + (w \div 2)) \div scale) >>

\* worker: the corners are always divided by 320
DecodeBoxWorker(cx, cy, w, h) ==
    << Max2(0, (cy - (h \div 2)) \div GridSize),
       Max2(0, (cx - (w \div 2)) \div GridSize),
       Min2(U, (cy + (h \div 2)) \div GridSize),
       Min2(U, (cx + (w \div 2)) \div GridSize) >>

\* the number of anchors of the grid: the bound of the loops over the anchors
\* (the code's 2100, the first dimension of the tensor the data is read from)
AnchorsIn(data) == Len(data) \div RowLen

\* hook: the loop over the anchors; acc = [maxScore, bestBox, detectedCount]
RECURSIVE NmsHook(_, _, _)
NmsHook(data, i, acc) ==
    IF i >= AnchorsIn(data) THEN acc
    ELSE
      LET offset     == i * RowLen
          currentMax == CurrentMax(data, offset)
      IN IF currentMax > DetectThreshold
         THEN IF currentMax > acc.maxScore
              THEN NmsHook(data, i + 1,
                           [maxScore      |-> currentMax,
                            bestBox       |-> DecodeBoxHook(At(data, offset),
                                                            At(data, offset + 1),
                                                            At(data, offset + 2),
                                                            At(data, offset + 3)),
                            detectedCount |-> acc.detectedCount + 1])
              ELSE NmsHook(data, i + 1, [acc EXCEPT !.detectedCount = @ + 1])
         ELSE NmsHook(data, i + 1, acc)

\* variant of NmsWorker that takes the first anchor above the threshold
NmsWorkerFirstAbove(data, i, acc) ==
    LET above == { k \in 0 .. (AnchorsIn(data) - 1) :
                     CurrentMax(data, k * RowLen) > DetectThreshold }
    IN IF above = {} THEN acc
       ELSE LET k == CHOOSE k \in above : \A m \in above : k <= m
                offset == k * RowLen
            IN [maxScore |-> CurrentMax(data, offset),
                bestBox  |-> DecodeBoxWorker(At(data, offset), At(data, offset + 1),
                                             At(data, offset + 2), At(data, offset + 3))]

\* worker: the same loop without the count
RECURSIVE NmsWorker(_, _, _)
NmsWorker(data, i, acc) ==
    IF i >= AnchorsIn(data) THEN acc
    ELSE
      LET offset     == i * RowLen
          currentMax == CurrentMax(data, offset)
      IN IF currentMax > DetectThreshold /\ currentMax > acc.maxScore
         THEN NmsWorker(data, i + 1,
                        [maxScore |-> currentMax,
                         bestBox  |-> DecodeBoxWorker(At(data, offset),
                                                      At(data, offset + 1),
                                                      At(data, offset + 2),
                                                      At(data, offset + 3))])
         ELSE NmsWorker(data, i + 1, acc)

\* number of anchors whose best class score is above the threshold
RECURSIVE CountAbove(_, _)
CountAbove(data, i) ==
    IF i >= AnchorsIn(data) THEN 0
    ELSE (IF CurrentMax(data, i * RowLen) > DetectThreshold THEN 1 ELSE 0)
         + CountAbove(data, i + 1)

(***************************************************************************)
(* Detector outputs the model draws from.                                  *)
(***************************************************************************)
Row(cx, cy, w, h, a, b) == << cx, cy, w, h, a, 0, 0, b, 0, 0, 0 >>

AnchorRows ==
    { Row(512000, 512000, 384000, 640000, 900000, 100000),   \* inside, 0.9
      Row(512000, 512000, 384000, 640000, 100000, 200000),   \* below threshold
      Row(512000, 512000, 384000, 640000, 250000, 0),        \* exactly 0.25
      Row(512000, 1408000, 256000, 256000, 0, 600000),       \* centre below the image
      Row(128000, 896000, 384000, 384000, 900000, 0),        \* overlaps two edges
      Row(160 * U, 160 * U, 64 * U, 64 * U, 700000, 0),      \* grid units, inside
      Row(160 * U, 400 * U, 64 * U, 32 * U, 0, 800000),      \* grid units, outside
      Row(U, U, 2 * U, 2 * U, 500000, 300000) }              \* cx < 1.5 but w >= 1.5

RECURSIVE GridsOf(_)
GridsOf(n) ==
    IF n = 0 THEN { << >> }
    ELSE { r \o g : r \in AnchorRows, g \in GridsOf(n - 1) }

Grids == GridsOf(NumAnchors)

(***************************************************************************)
(* Classification stage and decision arbiter.                              *)
(***************************************************************************)
OverrideThreshold == 50000
HookOverrideThreshold == 1000
SeaBassCeiling == 500000
CarpThreshold == 50000
LowFloor == 800000
HighCeiling == 980000
HighCeiling000 == 950000
WhiteSpotThreshold == 300000
BlackGillThreshold == 400000
Percent == 100

\* the 0-based index with the greatest score among `left`, the lowest index on a tie
BestOf(v, left) ==
    CHOOSE i \in left :
        \A k \in left : v[i + 1] > v[k + 1] \/ (v[i + 1] = v[k + 1] /\ i <= k)

\* predictions.sort((a, b) => b.score - a.score): stable, descending
RECURSIVE SortDesc(_, _)
SortDesc(v, left) ==
    IF left = {} THEN << >>
    ELSE LET i == BestOf(v, left)
         IN << [index |-> i, label |-> SPECIES_LABELS[i + 1], score |-> v[i + 1]] >>
            \o SortDesc(v, left \ {i})

\* Array.from(data).map((p, i) => ({index, label, score})) followed by the sort
Predictions(v) == SortDesc(v, 0 .. (Len(v) - 1))

\* predictions.find(p => labels.includes(p.label)): position in the ranking, 0 if none
FindLabel(preds, labels) ==
    LET hits == { k \in 1 .. Len(preds) : preds[k].label \in labels }
    IN IF hits = {} THEN 0 ELSE CHOOSE k \in hits : \A m \in hits : k <= m

\* variant of AntiBackground with the override threshold at 0.10
AntiBackgroundAtTenth(preds) ==
    IF preds[1].label = "wild_fish_background" /\ preds[2].score > 2 * OverrideThreshold
    THEN preds[2] ELSE preds[1]

\* the worker's and part_000's anti-background swap
AntiBackground(preds) ==
    IF preds[1].label = "wild_fish_background" /\ preds[2].score > OverrideThreshold
    THEN preds[2] ELSE preds[1]

\* the hook's "never guess wild fish" rule
AntiBackgroundHook(preds) ==
    IF preds[1].label = "wild_fish_background"
    THEN LET hits == { k \in 1 .. Len(preds) :
                         /\ preds[k].label # "wild_fish_background"
                         /\ preds[k].label # "unknown"
                         /\ preds[k].score > HookOverrideThreshold }
         IN IF hits = {} THEN preds[1]
            ELSE preds[CHOOSE k \in hits : \A m \in hits : k <= m]
    ELSE preds[1]

\* variant of SeaBassFix that takes the first-declared label of the set above
\* the threshold instead of the best-ranked one
SeaBassFixFirstDeclared(preds, final, carps) ==
    IF final.label = "sea_bass" /\ final.score < SeaBassCeiling
    THEN LET hits == { k \in 1 .. Len(preds) :
                         preds[k].label \in carps /\ preds[k].score > CarpThreshold }
         IN IF hits = {} THEN final
            ELSE preds[CHOOSE k \in hits : \A m \in hits : preds[k].index <= preds[m].index]
    ELSE final

\* the sea bass fix over the given confusable set
SeaBassFix(preds, final, carps) ==
    IF final.label = "sea_bass" /\ final.score < SeaBassCeiling
    THEN LET k == FindLabel(preds, carps)
         IN IF k # 0 /\ preds[k].score > CarpThreshold THEN preds[k] ELSE final
    ELSE final

\* variant of ChooseWorker that calibrates the score before the sea bass fix
ChooseWorkerAfterCalibration(v) ==
    LET preds == Predictions(v)
        swapped == AntiBackground(preds)
        humble == IF swapped.score < LowFloor THEN 820000 + (swapped.score \div 10)
                  ELSE swapped.score
    IN SeaBassFix(preds, [swapped EXCEPT !.score = humble], {"catla", "rohu"})

\* the chosen prediction, per implementation
ChooseWorker(v) ==
    LET preds == Predictions(v)
    IN SeaBassFix(preds, AntiBackground(preds), {"catla", "rohu"})

ChooseHook(v) ==
    LET preds == Predictions(v)
    IN SeaBassFix(preds, AntiBackgroundHook(preds), {"catla", "rohu", "mrigal"})

\* variant of DisplayScoreWorker with a low band one tenth wide
DisplayScoreWorkerTenth(score, r) ==
    IF score < LowFloor THEN 820000 + (r \div 10)
    ELSE IF score > HighCeiling THEN 940000 + ((r * 3) \div 100)
    ELSE score

\* worker: the "humble" score; r is the value of Math.random() in millionths
DisplayScoreWorker(score, r) ==
    IF score < LowFloor THEN 820000 + ((r * 2) \div 25)
    ELSE IF score > HighCeiling THEN 940000 + ((r * 3) \div 100)
    ELSE score

\* part_000: the "humble" score
DisplayScore000(score) ==
    IF score < LowFloor THEN 820000 + (score \div 10)
    ELSE IF score > HighCeiling000 THEN 930000
    ELSE score

\* dzData.indexOf(Math.max(...dzData)), 0-based
ArgMax(v) == BestOf(v, 0 .. (Len(v) - 1))

\* variant of DiseaseWorker that tests the black gill threshold first
DiseaseWorkerBlackGillFirst(dz) ==
    LET dIdx == ArgMax(dz)
        risk == IF dz[1] > BlackGillThreshold THEN "Black Gill Risk"
                ELSE IF dz[3] > WhiteSpotThreshold THEN "White Spot Risk"
                ELSE "Healthy"
    IN [name |-> risk, hasDisease |-> (risk # "Healthy"),
        confidence |-> dz[dIdx + 1] * Percent]

\* worker: the disease verdict
DiseaseWorker(dz) ==
    LET dIdx == ArgMax(dz)
        risk == IF dz[3] > WhiteSpotThreshold THEN "White Spot Risk"
                ELSE IF dz[1] > BlackGillThreshold THEN "Black Gill Risk"
                ELSE "Healthy"
    IN [name |-> risk, hasDisease |-> (risk # "Healthy"),
        confidence |-> dz[dIdx + 1] * Percent]

\* variant of Disease000 that reports the score of the class it names
Disease000FlaggedScore(dz) ==
    IF dz[3] > WhiteSpotThreshold
    THEN [name |-> "White Spot Risk", hasDisease |-> TRUE,
          confidence |-> dz[3] * Percent]
    ELSE IF dz[1] > BlackGillThreshold
    THEN [name |-> "Black Gill Risk", hasDisease |-> TRUE,
          confidence |-> dz[1] * Percent]
    ELSE [name |-> "Healthy", hasDisease |-> FALSE,
          confidence |-> dz[ArgMax(dz) + 1] * Percent]

\* part_000: the disease verdict
Disease000(dz) ==
    LET dIdx  == ArgMax(dz)
        dName == IF dz[3] > WhiteSpotThreshold THEN "White Spot Risk"
                 ELSE IF dz[1] > BlackGillThreshold THEN "Black Gill Risk"
                 ELSE "Healthy"
    IN [name |-> dName, hasDisease |-> (dName # "Healthy"),
        confidence |-> dz[dIdx + 1] * Percent]

\* variant of DiseaseHook that flags black gill only when it is the arg-max
DiseaseHookArgMaxOnly(dz) ==
    LET diseaseIdx == ArgMax(dz)
        verdict ==
            IF dz[3] > WhiteSpotThreshold
            THEN [name |-> "White Spot Risk", conf |-> dz[3] * Percent]
            ELSE IF dz[1] > BlackGillThreshold /\ diseaseIdx = 0
            THEN [name |-> "Black Gill Risk", conf |-> dz[1] * Percent]
            ELSE [name |-> DISEASE_LABELS[diseaseIdx + 1],
                  conf |-> dz[diseaseIdx + 1] * Percent]
    IN [name |-> verdict.name, hasDisease |-> (verdict.name # "Healthy"),
        confidence |-> verdict.conf]

\* hook: the disease verdict
DiseaseHook(dz) ==
    LET diseaseIdx == ArgMax(dz)
        verdict ==
            IF dz[3] > WhiteSpotThreshold
            THEN [name |-> "White Spot Risk", conf |-> dz[3] * Percent]
            ELSE IF dz[1] > BlackGillThreshold
            THEN [name |-> "Black Gill Risk", conf |-> dz[1] * Percent]
            ELSE [name |-> DISEASE_LABELS[diseaseIdx + 1],
                  conf |-> dz[diseaseIdx + 1] * Percent]
    IN [name |-> verdict.name, hasDisease |-> (verdict.name # "Healthy"),
        confidence |-> verdict.conf]

Fresh == [score |-> 950000, label |-> "Fresh"]

\* variant of ResultHook that reports the raw score as the species confidence
ResultHookUnscaled(final, dz, box) ==
    [ species     |-> [name |-> final.label, confidence |-> final.score],
      freshness   |-> Fresh,
      disease     |-> DiseaseHook(dz),
      boundingBox |-> Box(box) ]

\* the result objects assembled on the success path from the chosen prediction
ResultHook(final, dz, box) ==
    [ species     |-> [name |-> final.label, confidence |-> final.score * Percent],
      freshness   |-> Fresh,
      disease     |-> DiseaseHook(dz),
      boundingBox |-> Box(box) ]

Result000(final, dz, box) ==
    [ species     |-> [name |-> final.label,
                       confidence |-> DisplayScore000(final.score) * Percent],
      freshness   |-> Fresh,
      disease     |-> Disease000(dz),
      boundingBox |-> Box(box) ]

\* variant of ResultWorker that also moves the disease confidence by the draw
ResultWorkerJitteredDisease(final, dz, box, r) ==
    [ species     |-> [name |-> final.label,
                       confidence |-> DisplayScoreWorker(final.score, r) * Percent],
      freshness   |-> Fresh,
      disease     |-> [DiseaseWorker(dz) EXCEPT !.confidence = @ + r],
      boundingBox |-> Box(box) ]

ResultWorker(final, dz, box, r) ==
    [ species     |-> [name |-> final.label,
                       confidence |-> DisplayScoreWorker(final.score, r) * Percent],
      freshness   |-> Fresh,
      disease     |-> DiseaseWorker(dz),
      boundingBox |-> Box(box) ]

\* the hook's inner catch: fixed fields, the computed box
PartialFallback(box) == [FALLBACK_RESULT EXCEPT !.boundingBox = Box(box)]

(***************************************************************************)
(* Classifier outputs the model draws from.                                *)
(***************************************************************************)
\* an 18-entry species vector, zero except at the given 0-based indices
Vec(assign) ==
    [ i \in 1 .. Len(SPECIES_LABELS) |->
        IF (i - 1) \in DOMAIN assign THEN assign[i - 1] ELSE 0 ]

SpeciesVectors ==
    { Vec(16 :> 900000),                                  \* trout 0.90
      Vec(16 :> 990000),                                  \* trout 0.99
      Vec(17 :> 900000 @@ 16 :> 60000),                   \* background, runner-up 0.06
      Vec(17 :> 900000 @@ 16 :> 40000),                   \* background, runner-up 0.04
      Vec(17 :> 500000 @@ 11 :> 300000 @@ 10 :> 100000),  \* background, sea_bass, rohu
      Vec(17 :> U),                                       \* background alone
      Vec(11 :> 400000 @@ 1 :> 100000),                   \* sea_bass 0.40, catla 0.10
      Vec(11 :> 400000 @@ 6 :> 100000),                   \* sea_bass 0.40, mrigal 0.10
      Vec(11 :> 400000 @@ 1 :> 40000 @@ 10 :> 40000),     \* sea_bass 0.40, carps 0.04
      Vec(11 :> 600000 @@ 10 :> 300000) }                 \* sea_bass 0.60, rohu 0.30

DiseaseVectors ==
    { << 350000, 550000, 100000 >>,     \* neither threshold crossed
      << 100000, 550000, 350000 >>,     \* white spot above 0.30, healthy highest
      << 450000, 500000, 50000 >>,      \* black gill above 0.40, healthy highest
      << 450000, 200000, 350000 >>,     \* both thresholds crossed
      << 50000, 900000, 50000 >> }      \* clearly healthy

RandomDraws == { 0, 999900 }

\* the three shapes a predict() call may return
Shapes == { "tensor", "list", "map" }

\* the first of the shapes the code tests for: predict() returns a lone tensor
PlainShapes == { "tensor" }

(***************************************************************************)
(* The provider: model loading.                                            *)
(***************************************************************************)
Variants == { "hook", "part000", "worker" }
HookVariants == { "hook", "part000" }
MultiHead == { "part001", "rev2" }

NoHandles == [detector |-> Null, species |-> Null, disease |-> Null]
Handles   == [detector |-> "fish_detector_v1", species |-> "fish_species_model",
              disease |-> "fish_disease_model"]

LoadErrors == { "TensorFlow Core not available.", "Failed to load TFLite Script" }

NoCalls == [detector |-> 0, species |-> 0, disease |-> 0]

Init ==
    /\ variant \in Variants
    /\ loader = "pending"
    /\ isMounted = TRUE
    /\ isModelLoading = TRUE
    /\ modelError = Null
    /\ modelsRef = NoHandles
    /\ fishCount = 0
    /\ detectorModel = Null
    /\ speciesModel = Null
    /\ diseaseModel = Null
    /\ posted = << >>
    /\ returned = << >>
    /\ submitted = << >>
    /\ pc = "idle"
    /\ frame = 0
    /\ bestBox = None
    /\ detectedCount = 0
    /\ aboveCount = 0
    /\ spData = None
    /\ dzData = None
    /\ finalChoice = None
    /\ invoked = NoCalls
    /\ thrownAt = "none"
    /\ result = None
    /\ prev = None
    /\ live = {}
    /\ grid = None
    /\ other = {}

hookVars   == << isMounted, isModelLoading, modelError, modelsRef, fishCount, returned >>
workerVars == << detectorModel, speciesModel, diseaseModel, posted >>
callVars   == << pc, frame, bestBox, detectedCount, aboveCount, spData, dzData,
                 finalChoice, invoked, thrownAt, result, submitted, prev, live,
                 grid, other >>

\* variant of LoadedRef that leaves the disease handle unset
LoadedRefWithoutDisease(detector, species, disease) ==
    [detector |-> detector, species |-> species, disease |-> Null]

\* hook, initSystems: what the continuation of the awaited Promise.all stores
LoadedRef(detector, species, disease) ==
    [detector |-> detector, species |-> species, disease |-> disease]

\* hook, initSystems: the loads resolved
InitSystemsResolved ==
    /\ variant \in HookVariants
    /\ loader = "pending"
    /\ loader' = "resolved"
    /\ IF isMounted
       THEN /\ modelsRef' = LoadedRef(Handles.detector, Handles.species, Handles.disease)
            /\ isModelLoading' = FALSE
       ELSE UNCHANGED << modelsRef, isModelLoading >>
    /\ UNCHANGED << variant, isMounted, modelError, fishCount, returned >>
    /\ UNCHANGED workerVars
    /\ UNCHANGED callVars

\* hook, initSystems: a load (or the script) failed; the catch block
InitSystemsRejected ==
    /\ variant \in HookVariants
    /\ loader = "pending"
    /\ loader' = "rejected"
    /\ \E msg \in LoadErrors :
         IF isMounted
         THEN /\ modelError' = msg
              /\ isModelLoading' = FALSE
         ELSE UNCHANGED << modelError, isModelLoading >>
    /\ UNCHANGED << variant, isMounted, modelsRef, fishCount, returned >>
    /\ UNCHANGED workerVars
    /\ UNCHANGED callVars

\* hook: the effect's cleanup, run when the component unmounts
Unmount ==
    /\ variant \in HookVariants
    /\ isMounted
    /\ isMounted' = FALSE
    /\ UNCHANGED << variant, loader, isModelLoading, modelError, modelsRef,
                    fishCount, returned >>
    /\ UNCHANGED workerVars
    /\ UNCHANGED callVars

Msg(type, error, f) == [type |-> type, error |-> error, frame |-> f]

\* worker, loadModels: the loads resolved
LoadModelsResolved ==
    /\ variant = "worker"
    /\ loader = "pending"
    /\ loader' = "resolved"
    /\ detectorModel' = Handles.detector
    /\ speciesModel' = Handles.species
    /\ diseaseModel' = Handles.disease
    /\ posted' = Append(posted, Msg("LOADED", Null, 0))
    /\ UNCHANGED variant
    /\ UNCHANGED hookVars
    /\ UNCHANGED callVars

\* worker, loadModels: a load failed; the catch block
LoadModelsRejected ==
    /\ variant = "worker"
    /\ loader = "pending"
    /\ loader' = "rejected"
    /\ \E msg \in LoadErrors : posted' = Append(posted, Msg("ERROR", msg, 0))
    /\ UNCHANGED << variant, detectorModel, speciesModel, diseaseModel >>
    /\ UNCHANGED hookVars
    /\ UNCHANGED callVars

(***************************************************************************)
(* The analyze call.  The call variables hold the call the event loop is   *)
(* running (or ran last).  The worker handles one message at a time: its   *)
(* stages are the steps read, detect, extract, species, disease.  The      *)
(* hook's analyzeFish is an async function that hands control back at      *)
(* three awaits of a tensor's data(): its steps are read (up to the await  *)
(* of detectorInputGPU.data()), detect (from there to the await of         *)
(* transposed.data()), decode (the anchors and the count), extract (up to  *)
(* the await of croppedGPU.data()), prepare (the classifier input),        *)
(* species and disease.  pc names the step the call takes next; the call   *)
(* is suspended at an await when pc is detect, decode or prepare.  The     *)
(* hook has no busy test: while a call is suspended, analyzeFish can be    *)
(* called again and any suspended call can be resumed; the calls that are  *)
(* suspended while another runs are held in `other`.                       *)
(***************************************************************************)
\* variant of Ready that never rejects a call
ReadyAlways(ref) == TRUE

\* hook: !detector || !species || !disease is false
Ready(ref) == ref.detector # Null /\ ref.species # Null /\ ref.disease # Null

\* worker: !detectorModel || !speciesModel || !diseaseModel is false
WorkerReady == detectorModel # Null /\ speciesModel # Null /\ diseaseModel # Null

\* variant of HookCatch: every throw answered with the fully fixed result
HookCatchAlwaysFull(stage, box) == [kind |-> "return", value |-> FALLBACK_RESULT]

\* variant of HookCatch: every throw answered by the inner catch
HookCatchAlwaysInner(stage, box) ==
    [kind |-> "return",
     value |-> PartialFallback(IF box = None THEN DefaultBox ELSE box)]

\* variant of HookCatch: a throw outside the classification block escapes
HookCatchRethrows(stage, box) ==
    IF stage \in { "species", "disease" }
    THEN [kind |-> "return", value |-> PartialFallback(box)]
    ELSE [kind |-> "throw", value |-> None]

\* variant of HookCatch that keeps the box whenever one has been computed
HookCatchKeepsComputedBox(stage, box) ==
    IF stage \in { "extract", "species", "disease" }
    THEN [kind |-> "return", value |-> PartialFallback(box)]
    ELSE [kind |-> "return", value |-> FALLBACK_RESULT]

\* hook: what the catch block handling a throw at `stage` does
HookCatch(stage, box) ==
    IF stage \in { "species", "disease" }
    THEN [kind |-> "return", value |-> PartialFallback(box)]
    ELSE [kind |-> "return", value |-> FALLBACK_RESULT]

\* hook: the value analyzeFish returns when the handles are not all set
NotReadyReturn == [kind |-> "null", value |-> None]

\* worker: the message posted when the handles are not all set
NotReadyMessage(f) == Msg("ERROR", "Models still loading...", f)

\* worker: the message of the exception a failing call of `stage` throws
Failure(stage) == "failed at " \o stage

\* worker: the message of the TypeError thrown by detectorResult[0].dataSync()
\* when detectorResult[0] is undefined
FirstTensorError == "Cannot read properties of undefined (reading 'dataSync')"

\* worker: the message posted by the catch block, { type: 'ERROR', error:
\* err.message }
CrashMessage(error, f) == Msg("ERROR", error, f)

\* worker: the message posted on success
ResultMessage(f) == Msg("RESULT", Null, f)

\* variant of CappedCount that stores the count as it is
CappedCountUncapped(n) == n

\* hook: the argument of setFishCount
CappedCount(n) == Min2(n, MaxCount)

\* hook rev. 1 starts with bestBox = null, part_000 with the default box
InitialBox(v) == IF v = "hook" THEN None ELSE DefaultBox

\* worker: detectorResult.dataSync ? ... : detectorResult[0].dataSync() has a
\* first tensor to read for a tensor and for a list, not for a name-keyed map
WorkerDetectorReadable(shape) == shape \in { "tensor", "list" }

(***************************************************************************)
(* Tensors.  Every call of tf that returns a tensor allocates one, and the *)
(* tensor stays allocated until dispose() is called on it; the code has no *)
(* tf.tidy.  A tensor held by a variable of the code is named after the    *)
(* variable; the tensor a call in the middle of a chain returns is held by *)
(* no variable and is named after the chain so far ("resize" is            *)
(* tf.image.resizeBilinear(imgTensor, [320, 320]), "resize.expandDims" is  *)
(* resize.expandDims(0)); "normalized" is the argument                     *)
(* imgTensor.expandDims(0).toFloat().div(255.0) of the worker's            *)
(* cropAndResize.  The first tensor of a list or of a name-keyed map       *)
(* carries the suffix [0].                                                 *)
(***************************************************************************)
\* the tensor a predict() result of the given shape holds, as the guarded
\* release `if (raw.dispose) raw.dispose()` sees it: a list or a map has no
\* dispose method, so its tensor is out of the reach of that release
Held(name, shape) == IF shape = "tensor" THEN name ELSE name \o "[0]"

\* the tensors the first k calls of a chain have created
Created(chain, k) == { chain[i] : i \in 1..k }

\* the sets of tensors allocated when a call of the chain throws: `now` and
\* what the calls before the throwing one created, for each k in ks calls
AfterThrowIn(chain, ks, now) == { now \cup Created(chain, k) : k \in ks }

\* fromPixels and the chain resizeBilinear(...).expandDims(0).toFloat(), to
\* which rev2 adds .div(255.0); the last tensor is the one the variable holds
ReadChain(v) ==
    CASE v = "worker" ->
           << "imgTensor", "resize", "resize.expandDims", "detectorInput" >>
      [] v = "rev2" ->
           << "imgTensor", "resize", "resize.expandDims",
              "resize.expandDims.toFloat", "detectorInputGPU" >>
      [] OTHER ->
           << "imgTensor", "resize", "resize.expandDims", "detectorInputGPU" >>

\* hook: detector.predict and detectorRaw.transpose([0, 2, 1]).squeeze()
DetectChain == << "detectorRaw", "detectorRaw.transpose", "transposed" >>

\* imgTensor.expandDims(0).toFloat().div(255.0) and cropAndResize
ExtractChain(v) ==
    IF v = "worker"
    THEN << "imgTensor.expandDims", "imgTensor.expandDims.toFloat",
            "normalized", "modelInput" >>
    ELSE << "imgTensor.expandDims", "imgTensor.expandDims.toFloat",
            "hydraBase", "croppedGPU" >>

\* hook: the tensors allocated and not disposed once `stage` has completed;
\* `now` is that set before the stage
HookLiveAfter(v, stage, shape, now) ==
    CASE stage = "read" -> now \cup Created(ReadChain(v), Len(ReadChain(v)))
      [] stage = "detect" ->
           ((now \cup { "detectorInput" }) \ { "detectorInputGPU" })
               \cup Created(DetectChain, Len(DetectChain))
      [] stage = "decode" -> now \ { "detectorInput", "detectorRaw", "transposed" }
      [] stage = "extract" -> now \cup Created(ExtractChain(v), Len(ExtractChain(v)))
      [] stage = "prepare" ->
           (now \cup { "hydraInput" }) \ { "imgTensor", "hydraBase", "croppedGPU" }
      [] stage = "species" ->
           IF v = "hook"
           THEN (now \cup { "spArray" }) \ { "spArray" }
           ELSE (now \cup { Held("spRaw", shape) }) \ { "spRaw" }
      [] stage = "disease" ->
           IF v = "hook"
           THEN (now \cup { "dzArray" }) \ { "dzArray", "hydraInput" }
           ELSE (now \cup { Held("dzRaw", shape) }) \ { "dzRaw", "hydraInput" }

\* hook: the sets of tensors a throw inside `stage` can leave allocated, one
\* for each call of the stage that can throw (the last call of the stages
\* read, detect and extract is the data() whose promise is awaited); no catch
\* block disposes.  In a stage that calls a model, predict throws before there
\* is a result, the read of the first tensor's data after
HookLeftBy(v, stage, shape, now) ==
    CASE stage = "read" ->
           AfterThrowIn(ReadChain(v), 0..Len(ReadChain(v)), now)
      [] stage = "detect" ->
           AfterThrowIn(DetectChain, 0..Len(DetectChain),
                        (now \cup { "detectorInput" }) \ { "detectorInputGPU" })
      [] stage = "extract" ->
           AfterThrowIn(ExtractChain(v), 0..Len(ExtractChain(v)), now)
      [] stage = "species" -> { now, now \cup { Held("spRaw", shape) } }
      [] stage = "disease" -> { now, now \cup { Held("dzRaw", shape) } }

\* worker: the tensors allocated and not disposed once `stage` has completed
WorkerLiveAfter(stage, shape, now) ==
    CASE stage = "read" ->
           now \cup Created(ReadChain("worker"), Len(ReadChain("worker")))
      [] stage = "detect" ->
           (now \cup { Held("detectorResult", shape) })
               \ { "detectorInput", "detectorResult" }
      [] stage = "extract" ->
           now \cup Created(ExtractChain("worker"), Len(ExtractChain("worker")))
      [] stage = "species" -> now \cup { Held("spRaw", shape) }
      [] stage = "disease" ->
           (now \cup { Held("dzRaw", shape) })
               \ { "imgTensor", "modelInput", "spRaw", "dzRaw" }

\* worker: the sets of tensors a throw inside `stage` can leave allocated, one
\* for each call of the stage that can throw (predict, and the dataSync of a
\* first tensor that could be reached); the catch block disposes nothing
WorkerLeftBy(stage, shape, now) ==
    CASE stage = "read" ->
           AfterThrowIn(ReadChain("worker"), 0..(Len(ReadChain("worker")) - 1), now)
      [] stage = "detect" ->
           IF WorkerDetectorReadable(shape)
           THEN { now, now \cup { Held("detectorResult", shape) } }
           ELSE { now }
      [] stage = "extract" ->
           AfterThrowIn(ExtractChain("worker"),
                        0..(Len(ExtractChain("worker")) - 1), now)
      [] stage = "species" -> { now, now \cup { Held("spRaw", shape) } }
      [] stage = "disease" -> { now, now \cup { Held("dzRaw", shape) } }

ResetCall(f) ==
    /\ frame' = f
    /\ bestBox' = None
    /\ detectedCount' = 0
    /\ aboveCount' = 0
    /\ spData' = None
    /\ dzData' = None
    /\ finalChoice' = None
    /\ invoked' = NoCalls
    /\ thrownAt' = "none"
    /\ result' = None
    /\ live' = {}
    /\ grid' = None

\* hook: the call ends with `out` (a return value or an escaping exception)
HookEnds(out) ==
    /\ pc' = "done"
    /\ result' = out.value
    /\ returned' = Append(returned, [frame |-> frame, kind |-> out.kind])

\* hook: a stage throws, leaving one of the sets `lefts` allocated
HookThrowsLeaving(stage, lefts) ==
    LET out == HookCatch(stage, bestBox) IN
    /\ thrownAt' = stage
    /\ live' \in lefts
    /\ HookEnds(IF out.kind = "return" THEN [kind |-> "result", value |-> out.value]
                ELSE [kind |-> "throws", value |-> None])

\* hook: a call of the stage throws; `shape` is the shape of the result of
\* the stage's model call (Null in a stage that calls no model)
HookThrows(stage, shape) ==
    HookThrowsLeaving(stage, HookLeftBy(variant, stage, shape, live))

\* hook: the promise awaited before `stage` rejects, or the first statement
\* after the await throws; the exception belongs to the stage of the await
HookRejects(stage) == HookThrowsLeaving(stage, { live })

\* hook: analyzeFish is called; `earlier` is what `prev` keeps of the call before
AnalyzeFishNoting(earlier) ==
    /\ variant \in HookVariants
    /\ prev' = earlier
    /\ pc \in { "idle", "done" }
    /\ Len(submitted) < MaxFrames
    /\ submitted' = Append(submitted, [loader |-> loader, ready |-> Ready(modelsRef)])
    /\ ResetCall(Len(submitted) + 1)
    /\ IF Ready(modelsRef)
       THEN /\ pc' = "read"
            /\ UNCHANGED returned
       ELSE /\ pc' = "done"
            /\ returned' = Append(returned, [frame |-> Len(submitted) + 1,
                                             kind |-> NotReadyReturn.kind])
    /\ UNCHANGED << variant, loader, isMounted, isModelLoading, modelError,
                    modelsRef, fishCount, other >>
    /\ UNCHANGED workerVars

AnalyzeFish == AnalyzeFishNoting(prev)

\* hook: fromPixels, the resize chain and the call of detectorInputGPU.data()
HookFrameRead ==
    /\ variant \in HookVariants
    /\ pc = "read"
    /\ \/ /\ pc' = "detect"
          /\ live' = HookLiveAfter(variant, "read", Null, live)
          /\ UNCHANGED << thrownAt, result, returned >>
       \/ HookThrows("read", Null)
    /\ UNCHANGED << variant, loader, isMounted, isModelLoading, modelError,
                    modelsRef, fishCount, frame, bestBox, detectedCount,
                    aboveCount, spData, dzData, finalChoice, invoked, submitted, prev,
                    other, grid >>
    /\ UNCHANGED workerVars

\* hook: the continuation of the await of detectorInputGPU.data(): the
\* detector input, detector.predict, the shape handling, the transpose and
\* the call of transposed.data()
HookDetectOn(shapes) ==
    /\ variant \in HookVariants
    /\ pc = "detect"
    /\ \/ /\ HookRejects("read")
          /\ UNCHANGED invoked
       \/ /\ invoked' = [invoked EXCEPT !.detector = @ + 1]
          /\ \/ HookThrows("detect", Null)
             \/ \E shape \in shapes :
                  /\ live' = HookLiveAfter(variant, "detect", shape, live)
                  /\ pc' = "decode"
                  /\ UNCHANGED << thrownAt, result, returned >>
    /\ UNCHANGED << variant, loader, isMounted, isModelLoading, modelError,
                    modelsRef, fishCount, frame, bestBox, detectedCount,
                    aboveCount, spData, dzData, finalChoice, submitted, prev,
                    other, grid >>
    /\ UNCHANGED workerVars

HookDetect == HookDetectOn(PlainShapes)

\* hook: the continuation of the await of transposed.data(): `data` is what
\* the promise resolves with; the disposal of the detector's tensors, the NMS
\* loop, setFishCount and the default box
HookDecodeOn(grids, keep) ==
    /\ variant \in HookVariants
    /\ pc = "decode"
    /\ \/ /\ HookRejects("detect")
          /\ UNCHANGED << grid, bestBox, detectedCount, aboveCount, fishCount >>
       \/ \E data \in grids :
            LET acc == NmsHook(data, 0, [maxScore |-> 0,
                                         bestBox |-> InitialBox(variant),
                                         detectedCount |-> 0])
            IN /\ detectedCount' = acc.detectedCount
               /\ fishCount' = CappedCount(acc.detectedCount)
               /\ bestBox' = IF acc.bestBox = None THEN DefaultBox ELSE acc.bestBox
               /\ aboveCount' = CountAbove(data, 0)
               /\ grid' = IF keep THEN data ELSE None
               /\ live' = HookLiveAfter(variant, "decode", Null, live)
               /\ pc' = "extract"
               /\ UNCHANGED << thrownAt, result, returned >>
    /\ UNCHANGED << variant, loader, isMounted, isModelLoading, modelError,
                    modelsRef, frame, spData, dzData, finalChoice, invoked,
                    submitted, prev, other >>
    /\ UNCHANGED workerVars

HookDecode == HookDecodeOn(Grids, FALSE)

\* hook: the normalizing chain, cropAndResize and the call of croppedGPU.data()
HookExtract ==
    /\ variant \in HookVariants
    /\ pc = "extract"
    /\ \/ /\ pc' = "prepare"
          /\ live' = HookLiveAfter(variant, "extract", Null, live)
          /\ UNCHANGED << thrownAt, result, returned >>
       \/ HookThrows("extract", Null)
    /\ UNCHANGED << variant, loader, isMounted, isModelLoading, modelError,
                    modelsRef, fishCount, frame, bestBox, detectedCount,
                    aboveCount, spData, dzData, finalChoice, invoked, submitted, prev,
                    other, grid >>
    /\ UNCHANGED workerVars

\* hook: the continuation of the await of croppedGPU.data(): the classifier
\* input and the disposal of the frame, the normalized base and the crop
HookPrepare ==
    /\ variant \in HookVariants
    /\ pc = "prepare"
    /\ \/ /\ pc' = "species"
          /\ live' = HookLiveAfter(variant, "prepare", Null, live)
          /\ UNCHANGED << thrownAt, result, returned >>
       \/ HookRejects("extract")
    /\ UNCHANGED << variant, loader, isMounted, isModelLoading, modelError,
                    modelsRef, fishCount, frame, bestBox, detectedCount,
                    aboveCount, spData, dzData, finalChoice, invoked, submitted, prev,
                    other, grid >>
    /\ UNCHANGED workerVars

\* hook rev. 1 reads the name of the classifier's first input before it calls
\* predict (species.inputs[0].name, disease.inputs[0].name): the read can throw
\* with the model not yet called; part_000 passes the tensor as it is
ReadsInputName(v) == v = "hook"

\* hook: species.predict and the read of its first tensor (rev. 1 arbitrates here)
HookSpeciesOn(vectors, shapes) ==
    /\ variant \in HookVariants
    /\ pc = "species"
    /\ \/ /\ ReadsInputName(variant)
          /\ HookThrowsLeaving("species", { live })
          /\ UNCHANGED << invoked, spData, finalChoice >>
       \/ /\ invoked' = [invoked EXCEPT !.species = @ + 1]
          /\ \/ /\ \E shape \in shapes : HookThrows("species", shape)
                /\ UNCHANGED << spData, finalChoice >>
             \/ \E shape \in shapes, v \in vectors :
                  /\ spData' = v
                  /\ finalChoice' = IF variant = "hook" THEN ChooseHook(v) ELSE None
                  /\ live' = HookLiveAfter(variant, "species", shape, live)
                  /\ pc' = "disease"
                  /\ UNCHANGED << thrownAt, result, returned >>
    /\ UNCHANGED << variant, loader, isMounted, isModelLoading, modelError,
                    modelsRef, fishCount, frame, bestBox, detectedCount,
                    aboveCount, dzData, submitted, prev,
                    other, grid >>
    /\ UNCHANGED workerVars

HookSpecies == HookSpeciesOn(SpeciesVectors, PlainShapes)

\* hook: disease.predict, the verdict and the returned object
HookDiseaseOn(vectors, shapes) ==
    /\ variant \in HookVariants
    /\ pc = "disease"
    /\ \/ /\ ReadsInputName(variant)
          /\ HookThrowsLeaving("disease", { live })
          /\ UNCHANGED << invoked, dzData, finalChoice >>
       \/ /\ invoked' = [invoked EXCEPT !.disease = @ + 1]
          /\ \/ /\ \E shape \in shapes : HookThrows("disease", shape)
                /\ UNCHANGED << dzData, finalChoice >>
             \/ LET final == IF variant = "hook" THEN finalChoice
                             ELSE ChooseWorker(spData)
                IN \E shape \in shapes, dz \in vectors :
                     /\ dzData' = dz
                     /\ finalChoice' = final
                     /\ live' = HookLiveAfter(variant, "disease", shape, live)
                     /\ UNCHANGED thrownAt
                     /\ HookEnds([kind |-> "result",
                                  value |-> IF variant = "hook"
                                            THEN ResultHook(final, dz, bestBox)
                                            ELSE Result000(final, dz, bestBox)])
    /\ UNCHANGED << variant, loader, isMounted, isModelLoading, modelError,
                    modelsRef, fishCount, frame, bestBox, detectedCount,
                    aboveCount, spData, submitted, prev,
                    other, grid >>
    /\ UNCHANGED workerVars

HookDisease == HookDiseaseOn(DiseaseVectors, PlainShapes)

(***************************************************************************)
(* Overlapping calls of analyzeFish.  The function runs until an await (of *)
(* detectorInputGPU.data(), transposed.data() or croppedGPU.data()), where *)
(* the event loop may start another call or resume a suspended one; from   *)
(* the last await to the return there is no await.                         *)
(***************************************************************************)
AwaitPoints == { "detect", "decode", "prepare" }

\* variant of Locals in which bestBox does not survive the suspension
LocalsDroppingBox ==
    [ pc |-> pc, frame |-> frame, bestBox |-> DefaultBox,
      detectedCount |-> detectedCount, aboveCount |-> aboveCount,
      spData |-> spData, dzData |-> dzData, finalChoice |-> finalChoice,
      invoked |-> invoked, thrownAt |-> thrownAt, result |-> result,
      live |-> live, grid |-> grid ]

\* the variables declared inside the callback: each call has its own
Locals ==
    [ pc |-> pc, frame |-> frame, bestBox |-> bestBox,
      detectedCount |-> detectedCount, aboveCount |-> aboveCount,
      spData |-> spData, dzData |-> dzData, finalChoice |-> finalChoice,
      invoked |-> invoked, thrownAt |-> thrownAt, result |-> result,
      live |-> live, grid |-> grid ]

\* hook: analyzeFish is called while the call in flight is suspended at an
\* await; nothing in the function tests for a call in flight
AnalyzeFishMeanwhile ==
    /\ variant \in HookVariants
    /\ pc \in AwaitPoints
    /\ Len(submitted) < MaxFrames
    /\ other' = other \cup { Locals }
    /\ submitted' = Append(submitted, [loader |-> loader, ready |-> Ready(modelsRef)])
    /\ ResetCall(Len(submitted) + 1)
    /\ IF Ready(modelsRef)
       THEN /\ pc' = "read"
            /\ UNCHANGED returned
       ELSE /\ pc' = "done"
            /\ returned' = Append(returned, [frame |-> Len(submitted) + 1,
                                             kind |-> NotReadyReturn.kind])
    /\ UNCHANGED << variant, loader, isMounted, isModelLoading, modelError,
                    modelsRef, fishCount, prev >>
    /\ UNCHANGED workerVars

\* the awaited promise of a suspended call settles and its continuation
\* runs; the call that was running is at an await or has returned.  The locals
\* of a call that has returned are kept in `other` where `keep` says so
ResumeKeeping(keep) ==
    /\ variant \in HookVariants \cup MultiHead
    /\ pc \in AwaitPoints \cup { "done" }
    /\ \E c \in other :
         /\ c.pc \in AwaitPoints
         /\ other' = (other \ { c })
                        \cup (IF pc = "done" /\ ~keep THEN {} ELSE { Locals })
         /\ pc' = c.pc
         /\ frame' = c.frame
         /\ bestBox' = c.bestBox
         /\ detectedCount' = c.detectedCount
         /\ aboveCount' = c.aboveCount
         /\ spData' = c.spData
         /\ dzData' = c.dzData
         /\ finalChoice' = c.finalChoice
         /\ invoked' = c.invoked
         /\ thrownAt' = c.thrownAt
         /\ result' = c.result
         /\ live' = c.live
         /\ grid' = c.grid
    /\ UNCHANGED << variant, loader, isMounted, isModelLoading, modelError,
                    modelsRef, fishCount, returned, submitted, prev >>
    /\ UNCHANGED workerVars

Resume == ResumeKeeping(FALSE)

\* variant of WorkerCatch whose catch block posts nothing
WorkerCatchSilently(stage, error, lefts) ==
    /\ thrownAt' = stage
    /\ live' \in lefts
    /\ pc' = "done"
    /\ UNCHANGED << posted, result >>

\* worker: the catch block of onmessage, entered from `stage` with an
\* exception whose message is `error`, one of the sets `lefts` left allocated
WorkerCatch(stage, error, lefts) ==
    /\ thrownAt' = stage
    /\ live' \in lefts
    /\ pc' = "done"
    /\ posted' = Append(posted, CrashMessage(error, frame))
    /\ UNCHANGED result

\* worker: a call of the stage throws; `shape` is the shape of the result of
\* the stage's model call (Null in a stage that calls no model)
WorkerThrows(stage, shape) ==
    WorkerCatch(stage, Failure(stage), WorkerLeftBy(stage, shape, live))

\* worker: a frame message arrives; `earlier` is what `prev` keeps of the call before
OnMessageNoting(earlier) ==
    /\ variant = "worker"
    /\ prev' = earlier
    /\ pc \in { "idle", "done" }
    /\ Len(submitted) < MaxFrames
    /\ submitted' = Append(submitted, [loader |-> loader, ready |-> WorkerReady])
    /\ ResetCall(Len(submitted) + 1)
    /\ IF WorkerReady
       THEN /\ pc' = "read"
            /\ UNCHANGED posted
       ELSE /\ pc' = "done"
            /\ posted' = Append(posted, NotReadyMessage(Len(submitted) + 1))
    /\ UNCHANGED << variant, loader, detectorModel, speciesModel, diseaseModel,
                    other >>
    /\ UNCHANGED hookVars

OnMessage == OnMessageNoting(prev)

\* worker: fromPixels and resizeBilinear
WorkerFrameRead ==
    /\ variant = "worker"
    /\ pc = "read"
    /\ \/ /\ pc' = "detect"
          /\ live' = WorkerLiveAfter("read", Null, live)
          /\ UNCHANGED << thrownAt, result, posted >>
       \/ WorkerThrows("read", Null)
    /\ UNCHANGED << variant, loader, detectorModel, speciesModel, diseaseModel,
                    frame, bestBox, detectedCount, aboveCount, spData, dzData,
                    finalChoice, invoked, submitted, prev,
                    other, grid >>
    /\ UNCHANGED hookVars

\* worker: detectorModel.predict, the read of its data and the NMS loop
WorkerDetectOn(grids, shapes, keep) ==
    /\ variant = "worker"
    /\ pc = "detect"
    /\ invoked' = [invoked EXCEPT !.detector = @ + 1]
    /\ \/ /\ \E shape \in shapes : WorkerThrows("detect", shape)
          /\ UNCHANGED << grid, bestBox, aboveCount >>
       \/ \E shape \in shapes, data \in grids :
            IF WorkerDetectorReadable(shape)
            THEN /\ bestBox' = NmsWorker(data, 0, [maxScore |-> 0,
                                                   bestBox |-> DefaultBox]).bestBox
                 /\ aboveCount' = CountAbove(data, 0)
                 /\ grid' = IF keep THEN data ELSE None
                 /\ live' = WorkerLiveAfter("detect", shape, live)
                 /\ pc' = "extract"
                 /\ UNCHANGED << thrownAt, result, posted >>
            ELSE /\ WorkerCatch("detect", FirstTensorError,
                                { live \cup { Held("detectorResult", shape) } })
                 /\ UNCHANGED << grid, bestBox, aboveCount >>
    /\ UNCHANGED << variant, loader, detectorModel, speciesModel, diseaseModel,
                    frame, detectedCount, spData, dzData, finalChoice, submitted, prev,
                    other >>
    /\ UNCHANGED hookVars

WorkerDetect == WorkerDetectOn(Grids, PlainShapes, FALSE)

\* variant of WorkerExtract that runs the detector again before cropping
WorkerExtractRetriesDetector ==
    /\ variant = "worker"
    /\ pc = "extract"
    /\ pc' = "detect"
    /\ live' = live \cup { "detectorInput" }
    /\ UNCHANGED << thrownAt, result, posted >>
    /\ UNCHANGED << variant, loader, detectorModel, speciesModel, diseaseModel,
                    frame, bestBox, detectedCount, aboveCount, spData, dzData,
                    finalChoice, invoked, submitted, prev,
                    other, grid >>
    /\ UNCHANGED hookVars

\* worker: cropAndResize
WorkerExtract ==
    /\ variant = "worker"
    /\ pc = "extract"
    /\ \/ /\ pc' = "species"
          /\ live' = WorkerLiveAfter("extract", Null, live)
          /\ UNCHANGED << thrownAt, result, posted >>
       \/ WorkerThrows("extract", Null)
    /\ UNCHANGED << variant, loader, detectorModel, speciesModel, diseaseModel,
                    frame, bestBox, detectedCount, aboveCount, spData, dzData,
                    finalChoice, invoked, submitted, prev,
                    other, grid >>
    /\ UNCHANGED hookVars

\* worker: speciesModel.predict and the read of its data
WorkerSpeciesOn(vectors, shapes) ==
    /\ variant = "worker"
    /\ pc = "species"
    /\ invoked' = [invoked EXCEPT !.species = @ + 1]
    /\ \/ /\ \E shape \in shapes : WorkerThrows("species", shape)
          /\ UNCHANGED spData
       \/ \E shape \in shapes, v \in vectors :
            /\ spData' = v
            /\ live' = WorkerLiveAfter("species", shape, live)
            /\ pc' = "disease"
            /\ UNCHANGED << thrownAt, result, posted >>
    /\ UNCHANGED << variant, loader, detectorModel, speciesModel, diseaseModel,
                    frame, bestBox, detectedCount, aboveCount, dzData,
                    finalChoice, submitted, prev,
                    other, grid >>
    /\ UNCHANGED hookVars

WorkerSpecies == WorkerSpeciesOn(SpeciesVectors, PlainShapes)

\* worker: diseaseModel.predict, the decision logic and the RESULT message
WorkerDiseaseOn(vectors, draws, shapes) ==
    /\ variant = "worker"
    /\ pc = "disease"
    /\ invoked' = [invoked EXCEPT !.disease = @ + 1]
    /\ \/ /\ \E shape \in shapes : WorkerThrows("disease", shape)
          /\ UNCHANGED << dzData, finalChoice >>
       \/ LET final == ChooseWorker(spData)
          IN \E shape \in shapes, dz \in vectors, r \in draws :
               /\ dzData' = dz
               /\ finalChoice' = final
               /\ live' = WorkerLiveAfter("disease", shape, live)
               /\ result' = ResultWorker(final, dz, bestBox, r)
               /\ posted' = Append(posted, ResultMessage(frame))
               /\ pc' = "done"
               /\ UNCHANGED thrownAt
    /\ UNCHANGED << variant, loader, detectorModel, speciesModel, diseaseModel,
                    frame, bestBox, detectedCount, aboveCount, spData, submitted, prev,
                    other, grid >>
    /\ UNCHANGED hookVars

WorkerDisease == WorkerDiseaseOn(DiseaseVectors, RandomDraws, PlainShapes)

Next ==
    \/ InitSystemsResolved
    \/ InitSystemsRejected
    \/ Unmount
    \/ LoadModelsResolved
    \/ LoadModelsRejected
    \/ AnalyzeFish
    \/ AnalyzeFishMeanwhile
    \/ Resume
    \/ HookFrameRead
    \/ HookDetect
    \/ HookDecode
    \/ HookExtract
    \/ HookPrepare
    \/ HookSpecies
    \/ HookDisease
    \/ OnMessage
    \/ WorkerFrameRead
    \/ WorkerDetect
    \/ WorkerExtract
    \/ WorkerSpecies
    \/ WorkerDisease

Spec == Init /\ [][Next]_vars

(***************************************************************************)
(* The decision arbiter on a wider range of classifier outputs.            *)
(* The models are loaded; a frame is analysed, and analysed again with the *)
(* models returning the same outputs, so that two calls can be compared.   *)
(***************************************************************************)
\* species vectors: a ladder of scores for one label, the confusable-pair
\* cases and the background cases
WideSpeciesVectors ==
    { Vec(15 :> s) : s \in { 0, 500000, 799990, 800000, 800010, 900000,
                             950000, 960000, 980000, 980010, 990000, U } }
    \cup
    { Vec(11 :> 400000),                                  \* sea_bass alone
      Vec(11 :> 400000 @@ 1 :> 100000),                   \* catla 0.10
      Vec(11 :> 400000 @@ 10 :> 100000),                  \* rohu 0.10
      Vec(11 :> 400000 @@ 6 :> 100000),                   \* mrigal 0.10
      Vec(11 :> 400000 @@ 1 :> 100000 @@ 10 :> 200000),   \* rohu above catla
      Vec(11 :> 400000 @@ 1 :> 100000 @@ 10 :> 100000),   \* catla and rohu tied
      Vec(11 :> 400000 @@ 6 :> 200000 @@ 10 :> 100000),   \* mrigal above rohu
      Vec(11 :> 400000 @@ 1 :> 50000),                    \* catla exactly 0.05
      Vec(11 :> 400000 @@ 1 :> 40000 @@ 10 :> 40000),     \* carps at 0.04
      Vec(11 :> 400000 @@ 1 :> 60000 @@ 10 :> 40000),     \* catla 0.06, rohu 0.04
      Vec(11 :> 500000 @@ 10 :> 300000),                  \* sea_bass exactly 0.50
      Vec(11 :> 490000 @@ 10 :> 480000),                  \* sea_bass 0.49, rohu 0.48
      Vec(11 :> 600000 @@ 10 :> 300000),                  \* sea_bass 0.60
      Vec(10 :> 400000 @@ 1 :> 100000),                   \* rohu 0.40, catla 0.10
      Vec(17 :> 500000 @@ 11 :> 300000 @@ 10 :> 100000),  \* background, sea_bass, rohu
      Vec(17 :> 400000 @@ 11 :> 300000 @@ 10 :> 300000),  \* background, rohu = sea_bass
      Vec(17 :> 900000 @@ 11 :> 60000),                   \* background, sea_bass 0.06
      Vec(17 :> 880000 @@ 11 :> 60000 @@ 1 :> 55000),     \* and catla 0.055
      Vec(17 :> 900000 @@ 16 :> 60000),                   \* background, runner-up 0.06
      Vec(17 :> 900000 @@ 16 :> 50000),                   \* runner-up exactly 0.05
      Vec(17 :> 900000 @@ 16 :> 40000),                   \* runner-up 0.04
      Vec(17 :> 990000 @@ 16 :> 1000),                    \* runner-up exactly 0.001
      Vec(17 :> U) }                                      \* background alone

\* disease vectors (black gill, healthy, white spot) around the two thresholds
WideDiseaseVectors ==
    { << a, U - a - b, b >> : a \in { 50000, 400000, 410000, 450000 },
                              b \in { 50000, 300000, 310000, 350000 } }

\* the detector output of every frame of this specification: one grid
RECURSIVE Copies(_, _)
Copies(row, n) == IF n = 0 THEN << >> ELSE row \o Copies(row, n - 1)

SteadyGrids == { Copies(Row(160 * U, 160 * U, 64 * U, 64 * U, 700000, 0), NumAnchors) }

\* the state once the models are loaded and before the first frame
Loaded ==
    /\ variant \in Variants
    /\ loader = "resolved"
    /\ isMounted = TRUE
    /\ isModelLoading = (variant = "worker")
    /\ modelError = Null
    /\ modelsRef = IF variant = "worker" THEN NoHandles
                   ELSE LoadedRef(Handles.detector, Handles.species, Handles.disease)
    /\ fishCount = 0
    /\ detectorModel = IF variant = "worker" THEN Handles.detector ELSE Null
    /\ speciesModel = IF variant = "worker" THEN Handles.species ELSE Null
    /\ diseaseModel = IF variant = "worker" THEN Handles.disease ELSE Null
    /\ posted = IF variant = "worker" THEN << Msg("LOADED", Null, 0) >> ELSE << >>
    /\ returned = << >>
    /\ submitted = << >>
    /\ pc = "idle"
    /\ frame = 0
    /\ bestBox = None
    /\ detectedCount = 0
    /\ aboveCount = 0
    /\ spData = None
    /\ dzData = None
    /\ finalChoice = None
    /\ invoked = NoCalls
    /\ thrownAt = "none"
    /\ result = None
    /\ prev = None
    /\ live = {}
    /\ grid = None
    /\ other = {}

\* what is kept of a call that ran to its end, for the call that follows it
Earlier ==
    IF prev = None /\ pc = "done" /\ result # None /\ thrownAt = "none"
    THEN [spData |-> spData, dzData |-> dzData, result |-> result]
    ELSE prev

\* the second call reads the outputs of the first
SpeciesOutputs == IF prev = None THEN WideSpeciesVectors ELSE { prev.spData }
DiseaseOutputs == IF prev = None THEN WideDiseaseVectors ELSE { prev.dzData }

AgainAnalyzeFish   == AnalyzeFishNoting(Earlier)
AgainHookDecode    == HookDecodeOn(SteadyGrids, FALSE)
AgainHookSpecies   == HookSpeciesOn(SpeciesOutputs, PlainShapes)
AgainHookDisease   == HookDiseaseOn(DiseaseOutputs, PlainShapes)
AgainOnMessage     == OnMessageNoting(Earlier)
AgainWorkerDetect  == WorkerDetectOn(SteadyGrids, PlainShapes, FALSE)
AgainWorkerSpecies == WorkerSpeciesOn(SpeciesOutputs, PlainShapes)
AgainWorkerDisease == WorkerDiseaseOn(DiseaseOutputs, RandomDraws, PlainShapes)

NextArbiter ==
    \/ AgainAnalyzeFish
    \/ AnalyzeFishMeanwhile
    \/ Resume
    \/ HookFrameRead
    \/ HookDetect
    \/ AgainHookDecode
    \/ HookExtract
    \/ HookPrepare
    \/ AgainHookSpecies
    \/ AgainHookDisease
    \/ AgainOnMessage
    \/ WorkerFrameRead
    \/ AgainWorkerDetect
    \/ WorkerExtract
    \/ AgainWorkerSpecies
    \/ AgainWorkerDisease

SpecArbiter == Loaded /\ [][NextArbiter]_vars

(***************************************************************************)
(* The multi-head revisions, src/unnamed/part_001 (variant "part001") and  *)
(* the second revision of src/src/hooks/useFishNet.ts, lines 263-484       *)
(* (variant "rev2"): a detector and one classifier with three output heads *)
(* (species, freshness, disease).                                          *)
(***************************************************************************)
SPECIES_LABELS001 ==
    << "Barramundi", "Catla", "Clam", "Crab", "Cyprinus carpio", "Dogfish",
       "Eel", "Flowerhorn", "Jellyfish", "Koi", "Lobster", "Prawn",
       "Salmon", "Seabass", "Shrimp" >>

DISEASE_LABELS001 == << "Black Gill", "Healthy", "White Spot" >>

FALLBACK_RESULT001 ==
    [ species     |-> [name |-> "Rohu (Labeo rohita)", confidence |-> 94500000],
      freshness   |-> [score |-> 920000, label |-> "Fresh"],
      disease     |-> [name |-> "Healthy", hasDisease |-> FALSE,
                       confidence |-> 98000000],
      boundingBox |-> Box(<<150000, 150000, 850000, 850000>>) ]

\* rev2: the fixed result of its catch blocks
FALLBACK_RESULT002 ==
    [ species     |-> [name |-> "rohu", confidence |-> 94500000],
      freshness   |-> [score |-> 920000, label |-> "Fresh"],
      disease     |-> [name |-> "healthy", hasDisease |-> FALSE,
                       confidence |-> 98000000],
      boundingBox |-> Box(<<150000, 150000, 850000, 850000>>) ]

RunnerUpFloor == 100000
MinHeads == 3
LowRiskCeiling == 600000
FreshCutoff == 500000

\* the four corners of the winning anchor: divided by 320, not clamped
DecodeBox001(cx, cy, w, h) ==
    << (cy - (h \div 2)) \div GridSize,
       (cx - (w \div 2)) \div GridSize,
       (cy + (h \div 2)) \div GridSize,
       (cx + (w \div 2)) \div GridSize >>

\* the loop over the anchors; acc = [maxScore, bestBox]
RECURSIVE Nms001(_, _, _)
Nms001(data, i, acc) ==
    IF i >= AnchorsIn(data) THEN acc
    ELSE
      LET offset     == i * RowLen
          currentMax == CurrentMax(data, offset)
      IN IF currentMax > DetectThreshold /\ currentMax > acc.maxScore
         THEN Nms001(data, i + 1,
                     [maxScore |-> currentMax,
                      bestBox  |-> DecodeBox001(At(data, offset),
                                                At(data, offset + 1),
                                                At(data, offset + 2),
                                                At(data, offset + 3))])
         ELSE Nms001(data, i + 1, acc)

\* outputArray: a lone tensor is wrapped, a list or a map gives its values
OutputArray(shape, heads) == IF shape = "tensor" THEN << heads[1] >> ELSE heads

\* the disease verdict from the third head
Disease001(probs) ==
    LET diseaseIdx == ArgMax(probs)
        diseaseName == DISEASE_LABELS001[diseaseIdx + 1]
        diseaseConf == probs[diseaseIdx + 1]
    IN IF diseaseName = "Black Gill" /\ diseaseConf < LowRiskCeiling
       THEN [name |-> "Healthy (Low Risk)", hasDisease |-> FALSE,
             confidence |-> diseaseConf * Percent]
       ELSE [name |-> diseaseName, hasDisease |-> (diseaseName # "Healthy"),
             confidence |-> diseaseConf * Percent]

\* the object returned on the success path
Result001(head0, head1, head2, box) ==
    LET speciesIdx == ArgMax(head0) IN
    [ species     |-> [name |-> IF speciesIdx + 1 \in DOMAIN SPECIES_LABELS001
                                THEN SPECIES_LABELS001[speciesIdx + 1]
                                ELSE "Unknown",
                       confidence |-> head0[speciesIdx + 1] * Percent],
      freshness   |-> [score |-> head1[1],
                       label |-> IF head1[1] > FreshCutoff THEN "Fresh" ELSE "Stale"],
      disease     |-> Disease001(head2),
      boundingBox |-> Box(box) ]

\* rev2: the object returned on the success path
Result002(head0, head1, head2, box) ==
    LET predictions == Predictions(head0)
        runnerUp    == predictions[2]
        final       == IF predictions[1].label = "wild_fish_background"
                          /\ runnerUp.score > RunnerUpFloor
                       THEN runnerUp ELSE predictions[1]
        diseaseIdx  == ArgMax(head2)
    IN [ species     |-> [name |-> final.label,
                          confidence |-> final.score * Percent],
         freshness   |-> [score |-> head1[1],
                          label |-> IF head1[1] > FreshCutoff THEN "Fresh" ELSE "Stale"],
         disease     |-> [name |-> DISEASE_LABELS[diseaseIdx + 1],
                          hasDisease |-> (diseaseIdx # 1),
                          confidence |-> head2[diseaseIdx + 1] * Percent],
         boundingBox |-> Box(box) ]

\* rev2: what the catch block handling a throw at `stage` returns
Catch002(stage, box) ==
    IF stage = "hydra"
    THEN [FALLBACK_RESULT002 EXCEPT !.boundingBox = Box(box)]
    ELSE FALLBACK_RESULT002

\* variant of Catch001 that answers every throw with the fully fixed result
Catch001AlwaysFull(stage, box) == FALLBACK_RESULT001

\* what the catch block handling a throw at `stage` returns
Catch001(stage, box) ==
    IF stage = "hydra"
    THEN [FALLBACK_RESULT001 EXCEPT !.boundingBox = Box(box)]
    ELSE FALLBACK_RESULT001

\* a 15-entry species head, zero except at the given 0-based indices
Vec001(assign) ==
    [ i \in 1 .. Len(SPECIES_LABELS001) |->
        IF (i - 1) \in DOMAIN assign THEN assign[i - 1] ELSE 0 ]

\* the heads the classifier returns: species, freshness, disease
HydraOutputs ==
    { << h0, h1, h2 >> :
        h0 \in { Vec001(1 :> 900000), Vec001(13 :> 600000 @@ 0 :> 300000),
                 Vec001(14 :> U) },
        h1 \in { << 700000 >>, << 300000 >> },
        h2 \in { << 50000, 900000, 50000 >>, << 550000, 400000, 50000 >>,
                 << 100000, 200000, 700000 >> } }

\* rev2: the heads over its 18 species labels
HydraOutputs002 ==
    { << h0, h1, h2 >> :
        h0 \in { Vec(16 :> 900000), Vec(17 :> 700000 @@ 10 :> 200000),
                 Vec(17 :> 900000 @@ 10 :> 50000) },
        h1 \in { << 700000 >>, << 300000 >> },
        h2 \in { << 50000, 900000, 50000 >>, << 550000, 400000, 50000 >> } }

NoHandles001 == [detector |-> Null, hydra |-> Null]
Handles001   == [detector |-> "fish_detector_v1", hydra |-> "fishnet_final_v4_nuclear"]

\* !detectorModel || !hydraModel is false
Ready001(ref) == ref.detector # Null /\ ref.hydra # Null

\* the messages of the errors initSystems throws
LoadErrors001(v) ==
    IF v = "part001"
    THEN { "TensorFlow Core not available (Check main.tsx shim).",
           "Failed to load TFLite Script" }
    ELSE LoadErrors

\* the handles the analyzeFish a caller holds closed over: useCallback makes a
\* new function when the handles in the state change, so a caller calls the
\* function of the last render, or has kept the one of the first render,
\* whose handles are null
Closures001 == { modelsRef, NoHandles001 }

Init001 ==
    /\ variant \in MultiHead
    /\ loader = "pending"
    /\ isMounted = TRUE
    /\ isModelLoading = TRUE
    /\ modelError = Null
    /\ modelsRef = NoHandles001
    /\ fishCount = 0
    /\ detectorModel = Null
    /\ speciesModel = Null
    /\ diseaseModel = Null
    /\ posted = << >>
    /\ returned = << >>
    /\ submitted = << >>
    /\ pc = "idle"
    /\ frame = 0
    /\ bestBox = None
    /\ detectedCount = 0
    /\ aboveCount = 0
    /\ spData = None
    /\ dzData = None
    /\ finalChoice = None
    /\ invoked = NoCalls
    /\ thrownAt = "none"
    /\ result = None
    /\ prev = None
    /\ live = {}
    /\ grid = None
    /\ other = {}

\* initSystems: both loads resolved
InitSystems001Resolved ==
    /\ variant \in MultiHead
    /\ loader = "pending"
    /\ loader' = "resolved"
    /\ IF isMounted
       THEN /\ modelsRef' = Handles001
            /\ isModelLoading' = FALSE
       ELSE UNCHANGED << modelsRef, isModelLoading >>
    /\ UNCHANGED << variant, isMounted, modelError, fishCount, returned >>
    /\ UNCHANGED workerVars
    /\ UNCHANGED callVars

\* initSystems: a load (or the script) failed; the catch block
InitSystems001Rejected ==
    /\ variant \in MultiHead
    /\ loader = "pending"
    /\ loader' = "rejected"
    /\ \E msg \in LoadErrors001(variant) :
         IF isMounted
         THEN /\ modelError' = msg
              /\ isModelLoading' = FALSE
         ELSE UNCHANGED << modelError, isModelLoading >>
    /\ UNCHANGED << variant, isMounted, modelsRef, fishCount, returned >>
    /\ UNCHANGED workerVars
    /\ UNCHANGED callVars

\* the effect's cleanup, run when the component unmounts
Unmount001 ==
    /\ variant \in MultiHead
    /\ isMounted
    /\ isMounted' = FALSE
    /\ UNCHANGED << variant, loader, isModelLoading, modelError, modelsRef,
                    fishCount, returned >>
    /\ UNCHANGED workerVars
    /\ UNCHANGED callVars

\* rev2: the sets of tensors a throw inside `stage` can leave allocated; there
\* is no finally block.  In the continuation of the await of croppedGPU.data()
\* tf.tensor, tf.mean(hydraInput) or the dataSync() of the mean can throw
LeftBy002(stage, now) ==
    CASE stage = "hydra" -> { now, now \cup { "outputArray" } }
      [] stage = "prepare" ->
           { now, now \cup { "hydraInput" },
             now \cup { "hydraInput", "hydraInput.mean" } }
      [] OTHER -> HookLeftBy("rev2", stage, Null, now)

\* the tensors allocated and not disposed once `stage` has completed: the
\* stages before the classifier are those of the hook, but rev2 takes the
\* mean of the classifier input, tf.mean(hydraInput), and never disposes that
\* tensor; the classifier's outputs and its input are disposed after the
\* heads are read
LiveAfter001(stage, now) ==
    CASE stage = "hydra" ->
           (now \cup { "outputArray" }) \ { "outputArray", "hydraInput" }
      [] stage = "prepare" /\ variant = "rev2" ->
           HookLiveAfter(variant, stage, Null, now) \cup { "hydraInput.mean" }
      [] OTHER -> HookLiveAfter(variant, stage, Null, now)

\* the sets of tensors a throw inside `stage` can leave allocated; the finally
\* block of the classification disposes hydraInput, no catch block disposes
LeftBy001(stage, now) ==
    CASE stage = "hydra" ->
           { now \ { "hydraInput" }, (now \cup { "outputArray" }) \ { "hydraInput" } }
      [] stage = "prepare" -> { now }
      [] OTHER -> HookLeftBy("part001", stage, Null, now)

\* a stage throws, leaving one of the sets `lefts` allocated
Throws001Leaving(stage, lefts) ==
    /\ thrownAt' = stage
    /\ live' \in lefts
    /\ HookEnds([kind |-> "result",
                 value |-> IF variant = "rev2" THEN Catch002(stage, bestBox)
                           ELSE Catch001(stage, bestBox)])

Throws001(stage) ==
    Throws001Leaving(stage, IF variant = "rev2" THEN LeftBy002(stage, live)
                            ELSE LeftBy001(stage, live))

\* analyzeFish is called, with no call in flight or while the call in flight
\* is suspended at an await; the function tests the handles it closed over
AnalyzeFish001 ==
    /\ variant \in MultiHead
    /\ \/ /\ pc \in { "idle", "done" }
          /\ UNCHANGED other
       \/ /\ pc \in AwaitPoints
          /\ other' = other \cup { Locals }
    /\ Len(submitted) < MaxFrames
    /\ ResetCall(Len(submitted) + 1)
    /\ \E seen \in Closures001 :
         /\ submitted' = Append(submitted, [loader |-> loader,
                                            ready |-> Ready001(seen)])
         /\ IF Ready001(seen)
            THEN /\ pc' = "read"
                 /\ UNCHANGED returned
            ELSE /\ pc' = "done"
                 /\ returned' = Append(returned, [frame |-> Len(submitted) + 1,
                                                  kind |-> NotReadyReturn.kind])
    /\ UNCHANGED << variant, loader, isMounted, isModelLoading, modelError,
                    modelsRef, fishCount, prev >>
    /\ UNCHANGED workerVars

\* fromPixels, the resize chain and the call of detectorInputGPU.data()
FrameRead001 ==
    /\ variant \in MultiHead
    /\ pc = "read"
    /\ \/ /\ pc' = "detect"
          /\ live' = LiveAfter001("read", live)
          /\ UNCHANGED << thrownAt, result, returned >>
       \/ Throws001("read")
    /\ UNCHANGED << variant, loader, isMounted, isModelLoading, modelError,
                    modelsRef, fishCount, frame, bestBox, detectedCount,
                    aboveCount, spData, dzData, finalChoice, invoked, submitted, prev,
                    other, grid >>
    /\ UNCHANGED workerVars

\* the continuation of the await of detectorInputGPU.data(): the detector
\* input, detectorModel.predict, the shape handling, the transpose and the
\* call of transposed.data()
Detect001 ==
    /\ variant \in MultiHead
    /\ pc = "detect"
    /\ \/ /\ Throws001Leaving("read", { live })
          /\ UNCHANGED invoked
       \/ /\ invoked' = [invoked EXCEPT !.detector = @ + 1]
          /\ \/ Throws001("detect")
             \/ /\ live' = LiveAfter001("detect", live)
                /\ pc' = "decode"
                /\ UNCHANGED << thrownAt, result, returned >>
    /\ UNCHANGED << variant, loader, isMounted, isModelLoading, modelError,
                    modelsRef, fishCount, frame, bestBox, detectedCount,
                    aboveCount, spData, dzData, finalChoice, submitted, prev,
                    other, grid >>
    /\ UNCHANGED workerVars

\* the continuation of the await of transposed.data(): the disposal of the
\* detector's tensors, the NMS loop (rev2 counts the anchors and calls
\* setFishCount) and the default box
Decode001 ==
    /\ variant \in MultiHead
    /\ pc = "decode"
    /\ \/ /\ Throws001Leaving("detect", { live })
          /\ UNCHANGED << bestBox, aboveCount, detectedCount, fishCount >>
       \/ \E data \in Grids :
            LET acc == IF variant = "rev2"
                       THEN NmsHook(data, 0, [maxScore |-> 0, bestBox |-> None,
                                              detectedCount |-> 0])
                       ELSE Nms001(data, 0, [maxScore |-> 0, bestBox |-> None])
            IN /\ bestBox' = IF acc.bestBox = None THEN DefaultBox ELSE acc.bestBox
               /\ IF variant = "rev2"
                  THEN /\ detectedCount' = acc.detectedCount
                       /\ fishCount' = CappedCount(acc.detectedCount)
                  ELSE UNCHANGED << detectedCount, fishCount >>
               /\ aboveCount' = CountAbove(data, 0)
               /\ live' = LiveAfter001("decode", live)
               /\ pc' = "extract"
               /\ UNCHANGED << thrownAt, result, returned >>
    /\ UNCHANGED << variant, loader, isMounted, isModelLoading, modelError,
                    modelsRef, frame, spData, dzData,
                    finalChoice, invoked, submitted, prev,
                    other, grid >>
    /\ UNCHANGED workerVars

\* the normalizing chain, cropAndResize and the call of croppedGPU.data()
Extract001 ==
    /\ variant \in MultiHead
    /\ pc = "extract"
    /\ \/ /\ pc' = "prepare"
          /\ live' = LiveAfter001("extract", live)
          /\ UNCHANGED << thrownAt, result, returned >>
       \/ Throws001("extract")
    /\ UNCHANGED << variant, loader, isMounted, isModelLoading, modelError,
                    modelsRef, fishCount, frame, bestBox, detectedCount,
                    aboveCount, spData, dzData, finalChoice, invoked, submitted, prev,
                    other, grid >>
    /\ UNCHANGED workerVars

\* the continuation of the await of croppedGPU.data(): the classifier input
\* (of which rev2 logs the mean) and the disposal of the frame, the normalized
\* base and the crop; a throw here is caught by the outer catch, as one of the
\* extraction is
Prepare001 ==
    /\ variant \in MultiHead
    /\ pc = "prepare"
    /\ \/ /\ pc' = "hydra"
          /\ live' = LiveAfter001("prepare", live)
          /\ UNCHANGED << thrownAt, result, returned >>
       \/ Throws001Leaving("extract", IF variant = "rev2"
                                      THEN LeftBy002("prepare", live)
                                      ELSE LeftBy001("prepare", live))
    /\ UNCHANGED << variant, loader, isMounted, isModelLoading, modelError,
                    modelsRef, fishCount, frame, bestBox, detectedCount,
                    aboveCount, spData, dzData, finalChoice, invoked, submitted, prev,
                    other, grid >>
    /\ UNCHANGED workerVars

\* the read of hydraModel.inputs[0].name (which can throw with the model not
\* yet called), hydraModel.predict, the check of the heads, the reads of the
\* three heads in turn, the mapping and the return; the call of the
\* multi-head model is counted as the species invocation.  spData is head0,
\* dzData is head2: a throw after head0 was read leaves spData read
Hydra001 ==
    /\ variant \in MultiHead
    /\ pc = "hydra"
    /\ \/ /\ Throws001Leaving("hydra", { IF variant = "rev2" THEN live
                                         ELSE live \ { "hydraInput" } })
          /\ UNCHANGED << invoked, spData, dzData >>
       \/ /\ invoked' = [invoked EXCEPT !.species = @ + 1]
          /\ \/ /\ Throws001("hydra")
                /\ UNCHANGED << spData, dzData >>
             \/ \E shape \in Shapes,
                   heads \in (IF variant = "rev2" THEN HydraOutputs002
                              ELSE HydraOutputs) :
                  LET outputArray == OutputArray(shape, heads)
                      withOutputs ==
                        IF variant = "rev2" THEN live \cup { "outputArray" }
                        ELSE (live \cup { "outputArray" }) \ { "hydraInput" }
                  IN
                  IF Len(outputArray) < MinHeads
                  THEN /\ Throws001Leaving("hydra", { withOutputs })
                       /\ spData' = IF variant = "rev2" THEN outputArray[1] ELSE spData
                       /\ UNCHANGED dzData
                  ELSE \/ /\ Throws001Leaving("hydra", { withOutputs })
                          /\ spData' = outputArray[1]
                          /\ UNCHANGED dzData
                       \/ /\ spData' = outputArray[1]
                          /\ dzData' = outputArray[3]
                          /\ live' = LiveAfter001("hydra", live)
                          /\ UNCHANGED thrownAt
                          /\ HookEnds([kind |-> "result",
                                       value |-> IF variant = "rev2"
                                                 THEN Result002(outputArray[1],
                                                                outputArray[2],
                                                                outputArray[3], bestBox)
                                                 ELSE Result001(outputArray[1],
                                                                outputArray[2],
                                                                outputArray[3], bestBox)])
    /\ UNCHANGED << variant, loader, isMounted, isModelLoading, modelError,
                    modelsRef, fishCount, frame, bestBox, detectedCount,
                    aboveCount, finalChoice, submitted, prev,
                    other, grid >>
    /\ UNCHANGED workerVars

Next001 ==
    \/ InitSystems001Resolved
    \/ InitSystems001Rejected
    \/ Unmount001
    \/ AnalyzeFish001
    \/ Resume
    \/ FrameRead001
    \/ Detect001
    \/ Decode001
    \/ Extract001
    \/ Prepare001
    \/ Hydra001

Spec001 == Init001 /\ [][Next001]_vars

(***************************************************************************)
(* The hook on crowded frames: grids with up to CrowdAnchors anchors above *)
(* the detection threshold, so that the cap of the count is reached.       *)
(***************************************************************************)
\* a grid whose first k anchors score 0.9 and whose other anchors score 0.1
CrowdGrid(k) ==
    Copies(Row(512000, 512000, 384000, 640000, 900000, 0), k)
    \o Copies(Row(512000, 512000, 384000, 640000, 100000, 0), CrowdAnchors - k)

CrowdGrids ==
    { CrowdGrid(k) : k \in { 0, 1, MaxCount - 1, MaxCount, MaxCount + 1, CrowdAnchors } }

InitCrowd == Loaded /\ variant \in HookVariants

CrowdHookDecode == HookDecodeOn(CrowdGrids, FALSE)

NextCrowd ==
    \/ AnalyzeFish
    \/ AnalyzeFishMeanwhile
    \/ Resume
    \/ HookFrameRead
    \/ HookDetect
    \/ CrowdHookDecode
    \/ HookExtract
    \/ HookPrepare
    \/ HookSpecies
    \/ HookDisease

SpecCrowd == InitCrowd /\ [][NextCrowd]_vars

(***************************************************************************)
(* The detection stage with its input kept: the models are loaded, every   *)
(* frame's detector output is recorded in `grid` next to the box decoded   *)
(* from it.                                                                *)
(***************************************************************************)
\* one output of each classifier and one random draw, for the stages that
\* follow the one examined
SteadySpecies == { Vec(16 :> 900000) }
SteadyDisease == { << 50000, 900000, 50000 >> }
SteadyDraws   == { 0 }

NextDecode ==
    \/ AnalyzeFish
    \/ AnalyzeFishMeanwhile
    \/ Resume
    \/ HookFrameRead
    \/ HookDetect
    \/ HookDecodeOn(Grids, TRUE)
    \/ HookExtract
    \/ HookPrepare
    \/ HookSpeciesOn(SteadySpecies, PlainShapes)
    \/ HookDiseaseOn(SteadyDisease, PlainShapes)
    \/ OnMessage
    \/ WorkerFrameRead
    \/ WorkerDetectOn(Grids, PlainShapes, TRUE)
    \/ WorkerExtract
    \/ WorkerSpeciesOn(SteadySpecies, PlainShapes)
    \/ WorkerDiseaseOn(SteadyDisease, SteadyDraws, PlainShapes)

SpecDecode == Loaded /\ [][NextDecode]_vars

(***************************************************************************)
(* The three return shapes of predict(): the models are loaded and each    *)
(* model call returns a lone tensor, a list or a name-keyed map.           *)
(***************************************************************************)
NextShapes ==
    \/ AnalyzeFish
    \/ AnalyzeFishMeanwhile
    \/ Resume
    \/ HookFrameRead
    \/ HookDetectOn(Shapes)
    \/ HookDecodeOn(SteadyGrids, FALSE)
    \/ HookExtract
    \/ HookPrepare
    \/ HookSpeciesOn(SteadySpecies, Shapes)
    \/ HookDiseaseOn(SteadyDisease, Shapes)
    \/ OnMessage
    \/ WorkerFrameRead
    \/ WorkerDetectOn(SteadyGrids, Shapes, FALSE)
    \/ WorkerExtract
    \/ WorkerSpeciesOn(SteadySpecies, Shapes)
    \/ WorkerDiseaseOn(SteadyDisease, SteadyDraws, Shapes)

SpecShapes == Loaded /\ [][NextShapes]_vars

(***************************************************************************)
(* Overlapping calls of the hook compared: the models are loaded, every    *)
(* call's detector output is recorded in `grid`, and the locals of a call  *)
(* that has returned are kept in `other` next to the suspended ones.       *)
(***************************************************************************)
\* the detector outputs of the two calls: no anchor above the threshold, one
\* anchor in grid units, two anchors in normalized coordinates
OverlapGrids ==
    { Copies(Row(512000, 512000, 384000, 640000, 100000, 200000), NumAnchors),
      Row(160 * U, 160 * U, 64 * U, 64 * U, 700000, 0)
        \o Copies(Row(512000, 512000, 384000, 640000, 100000, 200000), NumAnchors - 1),
      Copies(Row(128000, 896000, 384000, 384000, 900000, 0), NumAnchors) }

NextOverlap ==
    \/ AnalyzeFish
    \/ AnalyzeFishMeanwhile
    \/ ResumeKeeping(TRUE)
    \/ HookFrameRead
    \/ HookDetect
    \/ HookDecodeOn(OverlapGrids, TRUE)
    \/ HookExtract
    \/ HookPrepare
    \/ HookSpeciesOn(SteadySpecies \cup { Vec(17 :> U) }, PlainShapes)
    \/ HookDiseaseOn(SteadyDisease \cup { << 450000, 200000, 350000 >> }, PlainShapes)

SpecOverlap == InitCrowd /\ [][NextOverlap]_vars

(***************************************************************************)
(* The worker alone, from the start of loadModels.  The awaits of          *)
(* onmessage are on values already computed (dataSync() returns the data), *)
(* so the handler of a message continues on the microtask queue until it   *)
(* has posted: a stage that is enabled is eventually run.                  *)
(***************************************************************************)
InitWorker == Init /\ variant = "worker"

WorkerStages ==
    \/ WorkerFrameRead
    \/ WorkerDetectOn(Grids, Shapes, FALSE)
    \/ WorkerExtract
    \/ WorkerSpeciesOn(SteadySpecies, PlainShapes)
    \/ WorkerDiseaseOn(SteadyDisease, SteadyDraws, PlainShapes)

NextWorker ==
    \/ LoadModelsResolved
    \/ LoadModelsRejected
    \/ OnMessage
    \/ WorkerStages

SpecWorker == InitWorker /\ [][NextWorker]_vars /\ WF_vars(WorkerStages)

(***************************************************************************)
(* Properties.                                                             *)
(***************************************************************************)
\* the call in flight has produced an AnalysisResult
Produced == pc = "done" /\ result # None

\* the detection stage of the call in flight ran to its end
DetectionCompleted ==
    /\ pc \in { "extract", "prepare", "species", "disease", "done" }
    /\ invoked.detector = 1
    /\ thrownAt \notin { "read", "detect" }

InUnit(b) ==
    /\ 0 <= b.yMin /\ b.yMin <= b.yMax /\ b.yMax <= U
    /\ 0 <= b.xMin /\ b.xMin <= b.xMax /\ b.xMax <= U

\* C1: every produced box satisfies 0 <= yMin <= yMax <= 1 and
\* 0 <= xMin <= xMax <= 1, whatever the winning anchor's cx, cy, w, h.
C1_BoxWithinUnitSquare ==
    (variant \in { "hook", "worker" } /\ Produced) => InUnit(result.boundingBox)

\* C2 as stated: once detection has completed with no anchor above 0.25, the
\* box of the returned result is {0.1, 0.1, 0.9, 0.9} (hook and worker).
C2_DefaultBoxWheneverNoDetection ==
    (variant \in { "hook", "worker" } /\ Produced /\ DetectionCompleted
       /\ aboveCount = 0)
    => result.boundingBox = [yMin |-> 100000, xMin |-> 100000,
                             yMax |-> 900000, xMax |-> 900000]

\* C2 as amended: once detection has completed with no anchor above 0.25 and
\* region extraction has not thrown, the box of the returned result is
\* {0.1, 0.1, 0.9, 0.9}; when extraction throws, the hook returns the box of
\* FALLBACK_RESULT.
C2_DefaultBoxUnlessExtractionThrows ==
    (variant \in { "hook", "worker" } /\ Produced /\ DetectionCompleted
       /\ aboveCount = 0)
    => IF thrownAt = "extract"
       THEN result.boundingBox = [yMin |-> 150000, xMin |-> 150000,
                                  yMax |-> 850000, xMax |-> 850000]
       ELSE result.boundingBox = [yMin |-> 100000, xMin |-> 100000,
                                  yMax |-> 900000, xMax |-> 900000]

C2_Witness ==
    /\ variant = "worker" /\ Produced /\ DetectionCompleted /\ aboveCount = 0
    /\ thrownAt = "none"
    /\ result.boundingBox = [yMin |-> 100000, xMin |-> 100000,
                             yMax |-> 900000, xMax |-> 900000]

\* C3: when detection completed with box B and the species or disease call
\* then throws, analyzeFish returns boundingBox B with the species, disease
\* and freshness of FALLBACK_RESULT.
C3_PartialFallbackKeepsBox ==
    (variant \in HookVariants /\ pc = "done" /\ thrownAt \in { "species", "disease" })
    => /\ result # None
       /\ result.boundingBox = Box(bestBox)
       /\ result.species = FALLBACK_RESULT.species
       /\ result.disease = FALLBACK_RESULT.disease
       /\ result.freshness = FALLBACK_RESULT.freshness

C3_Witness ==
    /\ variant = "hook" /\ pc = "done" /\ thrownAt = "disease"
    /\ result.boundingBox = [yMin |-> 192000, xMin |-> 320000,
                             yMax |-> 832000, xMax |-> 704000]
    /\ result.species.name = "rohu"

\* C4: when the detector call throws, analyzeFish returns FALLBACK_RESULT, the
\* detector has been called once and no classifier is called for the frame.
C4_DetectorThrowFullFallback ==
    (variant \in HookVariants /\ thrownAt = "detect")
    => /\ pc = "done"
       /\ result = FALLBACK_RESULT
       /\ invoked = [detector |-> 1, species |-> 0, disease |-> 0]

C4_Witness ==
    /\ variant = "hook" /\ thrownAt = "detect" /\ pc = "done"
    /\ result.boundingBox.yMin = 150000

WellFormed(r) ==
    /\ r # None
    /\ DOMAIN r = { "species", "freshness", "disease", "boundingBox" }
    /\ DOMAIN r.species = { "name", "confidence" }
    /\ DOMAIN r.freshness = { "score", "label" }
    /\ DOMAIN r.disease = { "name", "hasDisease", "confidence" }
    /\ DOMAIN r.boundingBox = { "yMin", "xMin", "yMax", "xMax" }

\* C5: once the models are loaded, every analyzeFish call of the hook that has
\* ended returned a non-null well-formed AnalysisResult, whichever stage
\* threw; no exception escaped.
C5_HookAlwaysReturnsResult ==
    variant \in HookVariants =>
      /\ \A i \in 1 .. Len(returned) :
           submitted[returned[i].frame].ready => returned[i].kind = "result"
      /\ (pc = "done" /\ submitted[frame].ready) => WellFormed(result)

C5_Witness ==
    /\ variant = "hook" /\ pc = "done" /\ thrownAt = "extract"
    /\ Len(returned) = 2
    /\ returned[2].kind = "result"

\* the messages the worker posted for frame f
PostedFor(f) == SelectSeq(posted, LAMBDA m : m.frame = f)

\* C6: for every frame the worker receives with its models loaded it posts
\* exactly one message, of type RESULT, also when a stage throws.
C6_ExactlyOneResultPerFrame ==
    (variant = "worker" /\ pc = "done" /\ submitted[frame].ready)
    => /\ Len(PostedFor(frame)) = 1
       /\ PostedFor(frame)[1].type = "RESULT"

\* the entries of `returned` for frame f
ReturnedFor(f) == SelectSeq(returned, LAMBDA e : e.frame = f)

\* C7: a frame submitted while loading is pending is answered at once with
\* the not-ready signal (hook: null; worker: the ERROR message), no model is
\* invoked for it and no result is ever produced for it, also after loading
\* has completed.
C7_NotReadyRejectedNotQueued ==
    \A f \in 1 .. Len(submitted) :
      submitted[f].loader = "pending" =>
        /\ variant \in HookVariants =>
             /\ Len(ReturnedFor(f)) = 1
             /\ ReturnedFor(f)[1].kind = "null"
        /\ variant = "worker" =>
             /\ Len(PostedFor(f)) = 1
             /\ PostedFor(f)[1] = [type |-> "ERROR",
                                   error |-> "Models still loading...",
                                   frame |-> f]
        /\ frame = f => (pc = "done" /\ invoked = NoCalls /\ result = None)

C7_Witness ==
    /\ variant = "hook"
    /\ Len(submitted) = 2
    /\ submitted[1].loader = "pending"
    /\ loader = "resolved"
    /\ frame = 2 /\ Produced /\ thrownAt = "none"
    /\ Len(ReturnedFor(1)) = 1

\* what the caller got for frame f: the posted messages (worker), the
\* returned kinds (hook)
ReplyTo(f) ==
    IF variant = "worker"
    THEN [i \in 1 .. Len(PostedFor(f)) |->
            [type |-> PostedFor(f)[i].type, error |-> PostedFor(f)[i].error]]
    ELSE [i \in 1 .. Len(ReturnedFor(f)) |-> ReturnedFor(f)[i].kind]

\* C8: the response to a frame submitted while the models are loading differs
\* from the response to a frame submitted after loading has failed.
C8_LoadingDistinctFromFailed ==
    \A f, g \in 1 .. Len(submitted) :
      (submitted[f].loader = "pending" /\ submitted[g].loader = "rejected"
         /\ (frame = g => pc = "done"))
      => ReplyTo(f) # ReplyTo(g)

HookLoading == isModelLoading /\ modelError = Null /\ modelsRef = NoHandles
HookReady   == ~isModelLoading /\ modelError = Null /\ Ready(modelsRef)
HookError   == ~isModelLoading /\ modelError # Null /\ modelsRef = NoHandles

WorkerHandles == << detectorModel, speciesModel, diseaseModel >>

\* exactly one provider status holds; the worker's handles are all unset or all set
StatusInv ==
    /\ variant \in HookVariants =>
         \/ (HookLoading /\ ~HookReady /\ ~HookError)
         \/ (~HookLoading /\ HookReady /\ ~HookError)
         \/ (~HookLoading /\ ~HookReady /\ HookError)
    /\ variant = "worker" =>
         \/ WorkerHandles = << Null, Null, Null >>
         \/ WorkerReady

\* a status changes only from loading, and set handles never change
StatusStep ==
    /\ (HookReady => (HookReady' /\ modelsRef' = modelsRef))
    /\ (HookError => (HookError' /\ modelError' = modelError))
    /\ (WorkerReady => WorkerHandles' = WorkerHandles)

\* C9: in every reachable state exactly one of loading, ready and error holds
\* with the handles all unset, all set, all unset; the only transitions are
\* loading to ready and loading to error; the handles are never partially set
\* and never change once set.
C9_ProviderStatusMachine == [](StatusInv) /\ [][StatusStep]_vars

C9_Witness ==
    /\ variant = "hook" /\ HookReady /\ loader = "resolved"
    /\ Produced /\ thrownAt = "none"

\* the ranking of the species vector of the call in flight
Ranked == Predictions(spData)

\* a genuine result of the worker or of part_000 whose top-ranked label is the
\* background label and whose runner-up scores above 0.05
BackgroundOverridden ==
    /\ variant \in { "worker", "part000" }
    /\ Produced /\ thrownAt = "none"
    /\ Ranked[1].label = "wild_fish_background"
    /\ Ranked[2].score > 50000

\* C10 as stated: in that case the species name is the runner-up's label.
C10_RunnerUpReplacesBackground ==
    BackgroundOverridden => result.species.name = Ranked[2].label

\* the best-ranked label among catla and rohu (0 if the vector has neither)
BestCarp == FindLabel(Ranked, { "catla", "rohu" })

\* C10 as amended: in that case the species name is the runner-up's label,
\* unless the runner-up is sea_bass with a score below 0.50 and the
\* best-ranked of catla and rohu scores above 0.05: then it is that label.
C10_RunnerUpUnlessSeaBassFix ==
    BackgroundOverridden =>
      IF /\ Ranked[2].label = "sea_bass"
         /\ Ranked[2].score < 500000
         /\ Ranked[BestCarp].score > 50000
      THEN result.species.name = Ranked[BestCarp].label
      ELSE result.species.name = Ranked[2].label

C10_Witness ==
    /\ BackgroundOverridden
    /\ variant = "worker"
    /\ Ranked[2].label = "trout" /\ Ranked[2].score = 60000
    /\ result.species.name = "trout"

\* a call that ran to its end without a throw and produced its own result
Genuine == Produced /\ thrownAt = "none"

\* the score the species vector of the call gives to a label
ScoreOf(label) ==
    spData[CHOOSE i \in 1 .. Len(SPECIES_LABELS) : SPECIES_LABELS[i] = label]

\* the labels of a set with the greatest score of the set
TopOf(labels) ==
    { l \in labels : \A m \in labels : ScoreOf(l) >= ScoreOf(m) }

\* the declared confusable set of the implementation
Confusable ==
    IF variant = "hook" THEN { "catla", "rohu", "mrigal" } ELSE { "catla", "rohu" }

\* the prediction chosen after the anti-background step
AfterBackground ==
    IF variant = "hook" THEN AntiBackgroundHook(Ranked) ELSE AntiBackground(Ranked)

\* C11: when the label chosen after the anti-background step is sea_bass with
\* a raw score below 0.50 and some label of the confusable set scores above
\* 0.05, the species of the result is a highest-scoring label of that set; in
\* every other case the species is the label chosen after the anti-background
\* step.
C11_SeaBassFixPicksBestOfSet ==
    Genuine =>
      LET swapped == AfterBackground
      IN IF /\ swapped.label = "sea_bass"
            /\ swapped.score < 500000
            /\ \E l \in Confusable : ScoreOf(l) > 50000
         THEN result.species.name \in TopOf(Confusable)
         ELSE result.species.name = swapped.label

C11_Witness ==
    /\ Genuine
    /\ variant = "worker"
    /\ AfterBackground = [index |-> 11, label |-> "sea_bass", score |-> 400000]
    /\ ScoreOf("catla") = 100000 /\ ScoreOf("rohu") = 200000
    /\ result.species.name = "rohu"

\* C12: when neither disease threshold is crossed (black gill not above 0.40,
\* white spot not above 0.30) and healthy has the highest score, the disease
\* name of the result is the healthy label and hasDisease is false.
C12_HealthyWhenNoThresholdCrossed ==
    (/\ Genuine
     /\ dzData[1] <= 400000 /\ dzData[3] <= 300000
     /\ dzData[2] > dzData[1] /\ dzData[2] > dzData[3])
    => /\ result.disease.name \in { "healthy", "Healthy" }
       /\ result.disease.hasDisease = FALSE

\* C13: when the white spot score exceeds 0.30 the disease of the result is
\* White Spot Risk with hasDisease true, whatever the other two scores.
C13_WhiteSpotAboveThreshold ==
    (Genuine /\ dzData[3] > 300000)
    => /\ result.disease.name = "White Spot Risk"
       /\ result.disease.hasDisease = TRUE

C13_Witness ==
    /\ Genuine
    /\ variant = "worker"
    /\ dzData = << 450000, 200000, 350000 >>
    /\ result.disease.name = "White Spot Risk"
    /\ result.disease.hasDisease = TRUE

\* C14 as stated: when the black gill score exceeds 0.40 the disease of the
\* result is Black Gill Risk with hasDisease true.
C14_BlackGillAboveThreshold ==
    (Genuine /\ dzData[1] > 400000)
    => /\ result.disease.name = "Black Gill Risk"
       /\ result.disease.hasDisease = TRUE

\* C14 as amended: when the black gill score exceeds 0.40 hasDisease is true
\* and the disease is Black Gill Risk, also when black gill is not the
\* maximum, unless the white spot score exceeds 0.30: then it is White Spot
\* Risk.
C14_BlackGillUnlessWhiteSpot ==
    (Genuine /\ dzData[1] > 400000)
    => /\ result.disease.name = IF dzData[3] > 300000 THEN "White Spot Risk"
                                ELSE "Black Gill Risk"
       /\ result.disease.hasDisease = TRUE

C14_Witness ==
    /\ Genuine
    /\ variant = "hook"
    /\ dzData = << 450000, 500000, 50000 >>
    /\ result.disease.name = "Black Gill Risk"
    /\ result.disease.hasDisease = TRUE

\* the prediction selected by the ranking, the anti-background swap and the
\* confusable-pair rule of the worker and of part_000
Selected ==
    LET ranked  == Ranked
        swapped == AntiBackground(ranked)
        carp    == FindLabel(ranked, { "catla", "rohu" })
    IN IF /\ swapped.label = "sea_bass"
          /\ swapped.score < 500000
          /\ ranked[carp].score > 50000
       THEN ranked[carp]
       ELSE swapped

\* the result with the raw score of the selected prediction as its confidence
Uncalibrated(selected) ==
    [ species     |-> [name |-> selected.label, confidence |-> selected.score * 100],
      freshness   |-> [score |-> 950000, label |-> "Fresh"],
      disease     |-> IF variant = "worker" THEN DiseaseWorker(dzData)
                      ELSE Disease000(dzData),
      boundingBox |-> Box(bestBox) ]

\* C15: in the worker and in part_000 the species name of a result is the
\* label selected by the ranking, the anti-background swap and the
\* confusable-pair rule, whatever the calibration does; apart from
\* species.confidence the result is the uncalibrated one (disease, freshness
\* and box are not touched by the calibration).
C15_CalibrationKeepsLabel ==
    (Genuine /\ variant \in { "worker", "part000" })
    => LET selected == Selected
       IN /\ result.species.name = selected.label
          /\ [result EXCEPT !.species.confidence = selected.score * 100]
               = Uncalibrated(selected)

C15_Witness ==
    /\ Genuine
    /\ variant = "worker"
    /\ Selected = [index |-> 1, label |-> "catla", score |-> 100000]
    /\ result.species.name = "catla"
    /\ result.species.confidence = 82000000

\* confidence c is within the worker's calibration band of raw score s
InBand(s, c) ==
    IF s < 800000 THEN 82000000 <= c /\ c <= 90000000
    ELSE IF s > 980000 THEN 93000000 <= c /\ c <= 97000000
    ELSE c = s * 100

\* C16: in the worker a raw chosen score below 0.80 is displayed within
\* [0.82, 0.90], one above 0.98 within [0.93, 0.97], any other unchanged; the
\* species confidence of every RESULT is within [80, 98].
C16_WorkerCalibrationBands ==
    (Genuine /\ variant = "worker")
    => /\ InBand(finalChoice.score, result.species.confidence)
       /\ 80000000 <= result.species.confidence
       /\ result.species.confidence <= 98000000

C16_Witness ==
    /\ Genuine
    /\ variant = "worker"
    /\ finalChoice.score = 990000
    /\ result.species.confidence = 96999700

\* the call in flight is the second on the same model outputs and has produced
\* its own result
Repeated ==
    /\ prev # None
    /\ Genuine
    /\ spData = prev.spData
    /\ dzData = prev.dzData

\* C17: two calls on the same detector, species and disease outputs return the
\* same species name, disease, freshness and box; only species.confidence may
\* differ, and both values are within the calibration band of the raw score
\* (equal where the implementation draws no random number).
C17_RepeatedRunSameVerdict ==
    Repeated =>
      /\ [result EXCEPT !.species.confidence = 0]
           = [prev.result EXCEPT !.species.confidence = 0]
      /\ IF variant = "worker"
         THEN /\ InBand(finalChoice.score, result.species.confidence)
              /\ InBand(finalChoice.score, prev.result.species.confidence)
         ELSE result.species.confidence = prev.result.species.confidence

C17_Witness ==
    /\ Repeated
    /\ variant = "worker"
    /\ result.species.name = "rohu"
    /\ result.boundingBox = prev.result.boundingBox
    /\ result.species.confidence = 82000000
    /\ prev.result.species.confidence = 89999200

\* the SPECIES_LABELS array of the implementation
LabelsOf(v) == IF v = "part001" THEN SPECIES_LABELS001 ELSE SPECIES_LABELS

\* C18: the species name of every returned result (genuine, partial fallback,
\* full fallback) is an entry of the implementation's SPECIES_LABELS array.
C18_SpeciesNameInLabelSet ==
    Produced =>
      \E i \in 1 .. Len(LabelsOf(variant)) : LabelsOf(variant)[i] = result.species.name

\* C19: the species and the disease confidence of every returned result,
\* genuine or fallback, are within [0, 100]; a genuine result reports 100
\* times a score of the disease vector, and the hook 100 times the score of
\* the chosen prediction.
C19_ConfidencesWithinPercent ==
    Produced =>
      /\ 0 <= result.species.confidence /\ result.species.confidence <= 100 * U
      /\ 0 <= result.disease.confidence /\ result.disease.confidence <= 100 * U
      /\ Genuine =>
           /\ \E i \in 1 .. Len(dzData) : result.disease.confidence = dzData[i] * 100
           /\ variant = "hook" => result.species.confidence = finalChoice.score * 100

C19_Witness ==
    /\ Genuine
    /\ variant = "hook"
    /\ finalChoice.score = 900000
    /\ result.species.confidence = 90000000
    /\ result.disease.confidence = 55000000

\* C20 as stated: in the hook, once the detection stage of a call has
\* completed, fishCount is min(n, 50), n being the number of anchors of that
\* call whose best class score exceeds 0.25; fishCount is within 0..50 in
\* every state.
C20_FishCountCapped ==
    variant \in HookVariants =>
      /\ fishCount \in 0 .. 50
      /\ DetectionCompleted =>
           fishCount = (IF aboveCount < 50 THEN aboveCount ELSE 50)

\* a step stores the count of the call whose detection stage it completes, any
\* other step leaves fishCount as it is
FishCountStep ==
    variant \in HookVariants =>
      IF pc = "decode" /\ pc' = "extract"
      THEN fishCount' = (IF aboveCount' < 50 THEN aboveCount' ELSE 50)
      ELSE fishCount' = fishCount

\* C20 as amended: fishCount is within 0..50 in every state; the step that
\* completes the detection stage of a call stores min(n, 50) of that call, and
\* no other step changes fishCount: it is the count of the call whose
\* detection completed last, which a call that overlaps another need not be
\* when it returns.
C20_FishCountOfLastDetection ==
    /\ [](variant \in HookVariants => fishCount \in 0 .. 50)
    /\ [][FishCountStep]_vars

\* the first call counted one anchor and was suspended at its last await, the
\* second counted more than 50, stored the capped count and returned; the
\* first has now returned with the count of the second still shown
C20_Witness ==
    /\ variant = "hook"
    /\ DetectionCompleted /\ pc = "done" /\ thrownAt = "none"
    /\ Len(returned) = 2 /\ returned[1].frame = 2 /\ returned[2].frame = 1
    /\ frame = 1 /\ aboveCount = 1
    /\ fishCount = 50

(***************************************************************************)
(* Tensors, invocation order, decoding, output shapes.                     *)
(***************************************************************************)
\* C21: when an analyze call has ended, by whichever path, no tensor the call
\* allocated is still allocated
C21_NoTensorLeftAfterCall ==
    pc = "done" => live = {}

\* C22: within one call the models are invoked in the order detector, species
\* classifier, disease classifier, each at most once; the species classifier
\* is invoked only once the box is determined, the disease classifier only
\* once the species classifier has returned its vector
C22_InvocationOrder ==
    variant \in Variants =>
      /\ invoked.detector <= 1 /\ invoked.species <= 1 /\ invoked.disease <= 1
      /\ invoked.species > 0 => invoked.detector = 1 /\ bestBox # None
      /\ invoked.disease > 0 => invoked.species = 1 /\ spData # None
      /\ pc \in { "species", "disease" } => invoked.detector = 1 /\ bestBox # None
      /\ pc = "disease" => invoked.species = 1 /\ spData # None

C22_Witness ==
    /\ Genuine
    /\ invoked = [detector |-> 1, species |-> 1, disease |-> 1]

\* the best class score of anchor i of a grid
ScoreAt(data, i) == CurrentMax(data, i * RowLen)

\* some anchor of the grid scores above the detection threshold
HasWinner(data) ==
    \E i \in 0 .. (AnchorsIn(data) - 1) : ScoreAt(data, i) > DetectThreshold

\* the lowest-indexed anchor among those of the greatest score
Winner(data) ==
    CHOOSE i \in 0 .. (AnchorsIn(data) - 1) :
      /\ \A j \in 0 .. (AnchorsIn(data) - 1) : ScoreAt(data, j) <= ScoreAt(data, i)
      /\ \A j \in 0 .. (i - 1) : ScoreAt(data, j) < ScoreAt(data, i)

\* the corners of an anchor, unscaled if cx < 1.5 and w < 1.5 and divided by
\* 320 otherwise, then clamped as the code clamps them
ScaledThenClamped(cx, cy, w, h) ==
    LET scale == IF cx < NormCutoff /\ w < NormCutoff THEN 1 ELSE GridSize
    IN << Max2(0, (cy - (h \div 2)) \div scale),
          Max2(0, (cx - (w \div 2)) \div scale),
          Min2(U, (cy + (h \div 2)) \div scale),
          Min2(U, (cx + (w \div 2)) \div scale) >>

\* C23: the box of a genuine result is the winning anchor's corners, unscaled
\* if cx < 1.5 and w < 1.5 and divided by 320 otherwise, then clamped, in the
\* hook and in the worker alike
C23_ScaleChosenByCoordinates ==
    (Genuine /\ grid # None /\ HasWinner(grid)) =>
      LET offset == Winner(grid) * RowLen
      IN result.boundingBox =
           Box(ScaledThenClamped(At(grid, offset), At(grid, offset + 1),
                                 At(grid, offset + 2), At(grid, offset + 3)))

\* the box the implementation decodes from anchor i of a grid
DecodedFrom(v, data, i) ==
    LET offset == i * RowLen IN
    IF v = "worker"
    THEN DecodeBoxWorker(At(data, offset), At(data, offset + 1),
                         At(data, offset + 2), At(data, offset + 3))
    ELSE DecodeBoxHook(At(data, offset), At(data, offset + 1),
                       At(data, offset + 2), At(data, offset + 3))

\* C26: when some anchor scores above 0.25, the box of a genuine result is the
\* one decoded from the anchor of the greatest score, the lowest-indexed of
\* them when several tie, however many anchors are above the threshold
C26_BoxOfGreatestScore ==
    (Genuine /\ grid # None /\ HasWinner(grid)) =>
      result.boundingBox = Box(DecodedFrom(variant, grid, Winner(grid)))

\* a genuine result on a grid whose two anchors tie above the threshold and
\* decode to different boxes
C26_Witness ==
    /\ Genuine /\ grid # None /\ aboveCount = 2
    /\ ScoreAt(grid, 0) = ScoreAt(grid, 1)
    /\ DecodedFrom(variant, grid, 0) # DecodedFrom(variant, grid, 1)
    /\ result.boundingBox = Box(DecodedFrom(variant, grid, 0))

\* C24: whichever shape a model call returns, the stage reads its first
\* tensor: no call ends in the catch block because a list or a map had no
\* first tensor where the stage looked for it
C24_EveryShapeRead ==
    \A i \in 1..Len(posted) : posted[i].error # FirstTensorError

\* what a call of the hook returns when it runs alone, from the outputs its
\* models gave (c.grid, c.spData, c.dzData) and the stage that threw
Alone(v, c) ==
    IF c.thrownAt \in { "read", "detect", "extract" } THEN FALLBACK_RESULT
    ELSE
      LET acc == NmsHook(c.grid, 0, [maxScore |-> 0, bestBox |-> InitialBox(v),
                                     detectedCount |-> 0])
          box == IF acc.bestBox = None THEN DefaultBox ELSE acc.bestBox
      IN IF c.thrownAt \in { "species", "disease" } THEN PartialFallback(box)
         ELSE IF v = "hook"
              THEN ResultHook(ChooseHook(c.spData), c.dzData, box)
              ELSE Result000(ChooseWorker(c.spData), c.dzData, box)

\* the call running, as far as Alone reads it
Running == [grid |-> grid, spData |-> spData, dzData |-> dzData, thrownAt |-> thrownAt]

\* C25: of two calls of the hook that overlap, each returns the result it
\* would return alone; the model handles are the loaded ones throughout
C25_OverlappingCallsIndependent ==
    /\ modelsRef = LoadedRef(Handles.detector, Handles.species, Handles.disease)
    /\ Produced => result = Alone(variant, Running)
    /\ \A c \in other :
         (c.pc = "done" /\ c.result # None) => c.result = Alone(variant, c)

\* both calls have returned, the second before the first, with different
\* results, and the count shown is the one the first call stored
C25_Witness ==
    /\ Produced /\ thrownAt = "none"
    /\ Len(returned) = 2 /\ returned[1].frame = 2 /\ returned[2].frame = 1
    /\ \E c \in other :
         /\ c.pc = "done" /\ c.result # None /\ c.thrownAt = "none"
         /\ result # c.result
         /\ fishCount = CappedCount(IF frame = 1 THEN detectedCount
                                    ELSE c.detectedCount)
         /\ detectedCount # c.detectedCount

\* the fixed result of a multi-head revision
FallbackOf(v) == IF v = "rev2" THEN FALLBACK_RESULT002 ELSE FALLBACK_RESULT001

\* C27: in the multi-head revisions a call whose classifier stage fails, as
\* it does when the classifier returns fewer than 3 outputs or null, returns
\* the fixed species, disease and freshness with the box the detection
\* computed; it returns a value, the call does not throw
C27_MissingHeadsPartialFallback ==
    (variant \in MultiHead /\ pc = "done" /\ thrownAt = "hydra") =>
      /\ result = [FallbackOf(variant) EXCEPT !.boundingBox = Box(bestBox)]
      /\ bestBox # None
      /\ dzData = None
      /\ returned[Len(returned)] = [frame |-> frame, kind |-> "result"]

\* the second revision of the hook read the first head of a classifier
\* result that holds fewer than 3 tensors, failed on the missing head and
\* returned the partial fallback with a detected box
C27_Witness ==
    /\ variant = "rev2" /\ pc = "done" /\ thrownAt = "hydra"
    /\ spData # None /\ dzData = None
    /\ aboveCount > 0 /\ bestBox # DefaultBox
    /\ result.boundingBox = Box(bestBox)
    /\ result.species = FALLBACK_RESULT002.species

\* C28: when region extraction throws after the detection computed a box, the
\* hook returns the fully fixed result, box 0.15 .. 0.85, and the computed box
\* is dropped; a failed call reports the computed box only when the throw
\* came from a classifier
C28_ExtractionThrowDropsBox ==
    (variant \in HookVariants /\ pc = "done" /\ thrownAt # "none") =>
      /\ thrownAt = "extract" =>
           /\ result = FALLBACK_RESULT
           /\ result.boundingBox = Box(<<150000, 150000, 850000, 850000>>)
           /\ bestBox # None /\ result.boundingBox # Box(bestBox)
      /\ (bestBox # None /\ result.boundingBox = Box(bestBox)) =>
           thrownAt \in { "species", "disease" }

C28_Witness ==
    /\ variant = "hook" /\ pc = "done" /\ thrownAt = "extract"
    /\ aboveCount > 0 /\ bestBox # DefaultBox
    /\ result.boundingBox = Box(<<150000, 150000, 850000, 850000>>)
    /\ { "imgTensor", "hydraBase", "croppedGPU" } \subseteq live
    /\ "hydraInput" \notin live

\* the greatest entry of a vector
MaxOf(v) == CHOOSE x \in { v[i] : i \in DOMAIN v } : \A i \in DOMAIN v : v[i] <= x

\* the score of the class a risk name stands for
FlaggedScore(name, dz) ==
    IF name = "White Spot Risk" THEN dz[3]
    ELSE IF name = "Black Gill Risk" THEN dz[1] ELSE dz[2]

\* C29: in every result of the worker and of part_000 the disease confidence
\* is 100 times the greatest entry of the disease vector, whatever the name
\* reported: next to a risk name whose class is not the greatest, it is not
\* that class's score
C29_DiseaseConfidenceIsMaxScore ==
    (Genuine /\ variant \in { "worker", "part000" }) =>
      /\ result.disease.confidence = MaxOf(dzData) * 100
      /\ FlaggedScore(result.disease.name, dzData) < MaxOf(dzData) =>
           result.disease.confidence # FlaggedScore(result.disease.name, dzData) * 100

\* a result of the worker naming the white spot risk, flagged at 0.31 while
\* healthy scores higher, with the confidence of healthy
C29_Witness ==
    /\ Genuine /\ variant = "worker"
    /\ result.disease.name = "White Spot Risk"
    /\ dzData[3] < dzData[2] /\ dzData[1] < dzData[2]
    /\ result.disease.confidence = dzData[2] * 100
    /\ posted[Len(posted)] = ResultMessage(frame)

\* frame f has been handled to its end
Handled(f) == f < frame \/ (f = frame /\ pc = "done")

\* every handled frame has exactly one message, a RESULT or an ERROR, no
\* other frame has any, and the loader has posted one message, LOADED or
\* ERROR, exactly when it has settled
OneMessageEach ==
    /\ \A f \in 1 .. Len(submitted) :
         IF Handled(f)
         THEN /\ Len(PostedFor(f)) = 1
              /\ PostedFor(f)[1].type \in { "RESULT", "ERROR" }
         ELSE Len(PostedFor(f)) = 0
    /\ Len(PostedFor(0)) = IF loader = "pending" THEN 0 ELSE 1
    /\ loader = "resolved" => PostedFor(0)[1].type = "LOADED"
    /\ loader = "rejected" => PostedFor(0)[1].type = "ERROR"
    /\ \A k \in 1 .. Len(posted) : posted[k].frame \in 0 .. Len(submitted)

\* C30: the worker answers every frame message with exactly one message,
\* RESULT or ERROR, whether the models are loading, failed to load, the
\* pipeline succeeds or throws, and posts exactly one message of its own when
\* the loading settles; a frame being handled is eventually answered
C30_OneReplyPerFrame ==
    /\ [](variant = "worker" => OneMessageEach)
    /\ \A f \in 1 .. MaxFrames :
         (variant = "worker" /\ frame = f) ~> (Handled(f) /\ Len(PostedFor(f)) = 1)

\* frame 1 arrived while the models were loading and got the ERROR, the
\* loading then settled with LOADED, frame 2 ran the pipeline and got a RESULT
C30_Witness ==
    /\ variant = "worker" /\ pc = "done" /\ frame = 2
    /\ Len(posted) = 3
    /\ posted[1] = NotReadyMessage(1)
    /\ posted[2].type = "LOADED"
    /\ posted[3] = ResultMessage(2)

====
